---- MODULE Spec2Model ----
(***************************************************************************)
(* Model of the agent orchestrator of agentic-ai-prometheus                *)
(* (src/src/core/agent.py): the four pipelines of PrometheusAgent, the     *)
(* calls they make to the metrics gateway (src/src/core/                   *)
(* prometheus_client.py) and to the reasoning client (src/src/core/        *)
(* openai_client.py), and the conversation window.                         *)
(*                                                                         *)
(* Every await of the source is one action: between two awaits a coroutine *)
(* runs without interruption on the event loop.                            *)
(***************************************************************************)
EXTENDS Integers, Sequences, FiniteSets, TLC

\* ------------------------------------------------------------------------
\* Program constants
\* ------------------------------------------------------------------------

\* agent.py:254-255  len(self.conversation_history) > 20 / [-20:]
WindowCap == 20

\* openai_client.py:263  conversation_history[-10:]
PromptTurns == 10

\* agent.py:176  timedelta(hours=1), the lookback of the NL range query
DefaultLookbackHours == 1

\* ------------------------------------------------------------------------
\* Bounds of the model
\* ------------------------------------------------------------------------

\* longest conversation window an orchestrator starts with
MaxStart == 22

\* number of chat invocations started in one behaviour
MaxChats == 2

\* number of concurrent callers of chat
NumChatTasks == 2

\* ------------------------------------------------------------------------
\* Python helpers
\* ------------------------------------------------------------------------

Min(a, b) == IF a < b THEN a ELSE b

\* s[-n:] for n > 0
SliceLast(s, n) ==
  IF Len(s) <= n THEN s ELSE SubSeq(s, Len(s) - n + 1, Len(s))

\* needle in haystack, for sequences of characters
Contains(haystack, needle) ==
  \E i \in 0..(Len(haystack) - Len(needle)) :
     \A j \in 1..Len(needle) : haystack[i + j] = needle[j]

\* ------------------------------------------------------------------------
\* Conversation turns.  The content of a turn is an identifier: turns that
\* were in the window at construction carry their position, user messages
\* and replies come from two disjoint small sets.
\* ------------------------------------------------------------------------

Messages == {101, 102}
Replies  == {201, 202}

UserTurn(content)      == [role |-> "user", content |-> content]
AssistantTurn(content) == [role |-> "assistant", content |-> content]

PreFill(k) ==
  [i \in 1..k |-> IF i % 2 = 1 THEN UserTurn(i) ELSE AssistantTurn(i)]

StartLens == {0} \cup ((WindowCap - 1)..MaxStart)

ChatTasks == 1..NumChatTasks

\* ------------------------------------------------------------------------
\* State
\* ------------------------------------------------------------------------

VARIABLES
  conversation_history,  \* PrometheusAgent.conversation_history
  chat,                  \* frame of each chat() coroutine
  chatsStarted,          \* chat invocations started so far
  chatsCompleted,        \* chat invocations that returned a reply
  nl,                    \* frame of natural_language_query()
  inv,                   \* frame of investigate_alert()
  health,                \* frame of analyze_system_health()
  calls,                 \* calls made to the two clients, in order
  sent,                  \* messages of the latest chat completion request
  retry,                 \* frame of a coroutine wrapped by retry_async
  timed,                 \* a TimedCache, the clock and the callers' frames
  gateway,               \* frame of a PrometheusClient call
  rec                    \* frame of get_monitoring_recommendations()

\* the state of the orchestrator's pipelines and of the retry wrapper
agentVars == <<conversation_history, chat, chatsStarted, chatsCompleted,
               nl, inv, health, calls, sent, retry>>

vars == <<conversation_history, chat, chatsStarted, chatsCompleted,
          nl, inv, health, calls, sent, retry, timed, gateway, rec>>

NoValue == "none"

\* ------------------------------------------------------------------------
\* Metrics gateway, as seen by the orchestrator
\* (src/src/core/prometheus_client.py)
\* ------------------------------------------------------------------------

\* The three places where PrometheusClient.query / query_range raise:
\* session.get (transport), raise_for_status (HTTP status), and a body whose
\* status is not "success".
TransportError  == "ConnectError"
HTTPStatusError == "HTTPStatusError"
QueryFailed     == "Query failed"

GatewayErrors == {TransportError, HTTPStatusError, QueryFailed}

\* float(value) of a sample: the numeric strings the model draws from
FloatOf(v) ==
  CASE v = "1"  -> 1
    [] v = "0"  -> 0
    [] v = "85" -> 85

IsNumeric(v) == v \in {"1", "0", "85"}

\* an alert as returned by get_active_alerts: labels alertname and instance
\* (NoValue when the label is missing)
Alert(name, instance) == [alertname |-> name, instance |-> instance]

\* ------------------------------------------------------------------------
\* Chat pipeline: PrometheusAgent.chat, _get_current_system_summary and
\* OpenAIClient.chat_with_metrics
\* ------------------------------------------------------------------------

SummaryUnavailable ==
  [available |-> FALSE, up |-> 0, total |-> 0, alerts |-> 0]

\* results of the "up" query the summary may receive (value strings)
UpResults == {<<>>, <<"1", "0">>}

ChatAlertCounts == {1}

\* agent.py:338-343
SystemSummary(up_query_result, alert_count) ==
  IF \E i \in 1..Len(up_query_result) : ~IsNumeric(up_query_result[i])
  THEN SummaryUnavailable
  ELSE [available |-> TRUE,
        up |-> Cardinality({i \in 1..Len(up_query_result) :
                              FloatOf(up_query_result[i]) = 1}),
        total |-> Len(up_query_result),
        alerts |-> alert_count]

\* ChatMessages without the [-10:] slice: the whole window is sent
ChatMessages_WholeWindow(summary, history, user_message) ==
  <<[role |-> "system", content |-> summary]>>
    \o history
    \o <<UserTurn(user_message)>>

\* openai_client.py:260-267
ChatMessages(summary, history, user_message) ==
  <<[role |-> "system", content |-> summary]>>
    \o SliceLast(history, PromptTurns)
    \o <<UserTurn(user_message)>>

\* AppendTurns with the trim replaced by a single eviction (history.pop(0))
AppendTurns_PopOne(history, user_message, response) ==
  LET h == Append(Append(history, UserTurn(user_message)),
                  AssistantTurn(response))
  IN IF Len(h) > WindowCap THEN Tail(h) ELSE h

\* AppendTurns with the trim keeping the oldest turns (history[:20])
AppendTurns_KeepFirst(history, user_message, response) ==
  LET h == Append(Append(history, UserTurn(user_message)),
                  AssistantTurn(response))
  IN IF Len(h) > WindowCap THEN SubSeq(h, 1, WindowCap) ELSE h

\* AppendTurns with the slice one turn short (history[-19:])
AppendTurns_TrimOdd(history, user_message, response) ==
  LET h == Append(Append(history, UserTurn(user_message)),
                  AssistantTurn(response))
  IN IF Len(h) > WindowCap THEN SliceLast(h, WindowCap - 1) ELSE h

\* agent.py:250-255
AppendTurns(history, user_message, response) ==
  LET h == Append(Append(history, UserTurn(user_message)),
                  AssistantTurn(response))
  IN IF Len(h) > WindowCap THEN SliceLast(h, WindowCap) ELSE h

\* `backend` notes, while the call runs, whether the two calls of the summary
\* were answered; `respond`, once it ended, whether chat_with_metrics was
IdleChat ==
  [pc |-> "idle", user_message |-> 0, up_query_result |-> <<>>,
   current_summary |-> SummaryUnavailable,
   backend |-> NoValue, respond |-> NoValue,
   ret |-> [kind |-> "none", value |-> 0]]

\* chat(user_message) is called: runs up to the first await
ChatStart(t) ==
  /\ chat[t].pc = "idle"
  /\ chatsStarted < MaxChats
  /\ \E m \in Messages :
       chat' = [chat EXCEPT ![t] =
                  [IdleChat EXCEPT !.pc = "query_up", !.user_message = m]]
  /\ chatsStarted' = chatsStarted + 1
  /\ UNCHANGED <<timed, gateway, rec, sent, retry,
                 conversation_history, chatsCompleted, nl, inv, health, calls>>

\* ChatQueryUp without the try/except of the summary: a failed "up" query
\* leaves chat as an exception
ChatQueryUp_Raise(t) ==
  /\ chat[t].pc = "query_up"
  /\ \/ \E r \in UpResults :
          chat' = [chat EXCEPT ![t].pc = "get_alerts",
                               ![t].up_query_result = r]
     \/ chat' = [chat EXCEPT ![t] =
                   [IdleChat EXCEPT !.backend = "failed",
                                    !.ret = [kind |-> "raised", value |-> 0]]]
  /\ UNCHANGED <<timed, gateway, rec,
                 sent, retry, conversation_history, chatsStarted,
                 chatsCompleted, nl, inv, health, calls>>

\* agent.py:335  await self.prometheus.query("up"); a failure is caught at
\* agent.py:345 and the summary is the fixed string
ChatQueryUp(t) ==
  /\ chat[t].pc = "query_up"
  /\ \/ \E r \in UpResults :
          chat' = [chat EXCEPT ![t].pc = "get_alerts",
                               ![t].up_query_result = r]
     \/ chat' = [chat EXCEPT ![t].pc = "respond",
                             ![t].backend = "failed",
                             ![t].current_summary = SummaryUnavailable]
  /\ UNCHANGED <<timed, gateway, rec,
                 sent, retry, conversation_history, chatsStarted,
                 chatsCompleted, nl, inv, health, calls>>

\* agent.py:336-347  await self.prometheus.get_active_alerts()
ChatGetAlerts(t) ==
  /\ chat[t].pc = "get_alerts"
  /\ \/ \E n \in ChatAlertCounts :
          chat' = [chat EXCEPT ![t].pc = "respond",
                               ![t].backend = "ok",
                               ![t].current_summary =
                                  SystemSummary(chat[t].up_query_result, n)]
     \/ chat' = [chat EXCEPT ![t].pc = "respond",
                             ![t].backend = "failed",
                             ![t].current_summary = SummaryUnavailable]
  /\ UNCHANGED <<timed, gateway, rec,
                 sent, retry, conversation_history, chatsStarted,
                 chatsCompleted, nl, inv, health, calls>>

\* ChatRespond that builds the prompt from the window as it was before the
\* latest pair was appended
ChatRespond_StaleWindow(t) ==
  /\ chat[t].pc = "respond"
  /\ sent' = ChatMessages(chat[t].current_summary,
                          IF Len(conversation_history) >= 2
                          THEN SubSeq(conversation_history, 1,
                                      Len(conversation_history) - 2)
                          ELSE conversation_history,
                          chat[t].user_message)
  /\ \E r \in Replies :
       /\ conversation_history' =
            AppendTurns(conversation_history, chat[t].user_message, r)
       /\ chat' = [chat EXCEPT ![t] =
                    [IdleChat EXCEPT !.respond = "ok",
                                     !.ret = [kind |-> "returned",
                                              value |-> r]]]
  /\ chatsCompleted' = chatsCompleted + 1
  /\ UNCHANGED <<timed, gateway, rec,
                 chatsStarted, nl, inv, health, calls, retry>>

\* agent.py:243-257  chat_with_metrics builds the prompt (ChatMessages) and
\* calls the completion API without awaiting; the reply is appended and the
\* window trimmed before the coroutine can be suspended again
ChatRespond(t) ==
  /\ chat[t].pc = "respond"
  /\ sent' = ChatMessages(chat[t].current_summary, conversation_history,
                          chat[t].user_message)
  /\ \E r \in Replies :
       /\ conversation_history' =
            AppendTurns(conversation_history, chat[t].user_message, r)
       /\ chat' = [chat EXCEPT ![t] =
                    [IdleChat EXCEPT !.respond = "ok",
                                     !.ret = [kind |-> "returned",
                                              value |-> r]]]
  /\ chatsCompleted' = chatsCompleted + 1
  /\ UNCHANGED <<timed, gateway, rec,
                 chatsStarted, nl, inv, health, calls, retry>>

\* ChatRespondFails with the user turn appended before the reply is known
ChatRespondFails_KeepsUserTurn(t) ==
  /\ chat[t].pc = "respond"
  /\ sent' = ChatMessages(chat[t].current_summary, conversation_history,
                          chat[t].user_message)
  /\ conversation_history' =
       Append(conversation_history, UserTurn(chat[t].user_message))
  /\ chat' = [chat EXCEPT ![t] =
                 [IdleChat EXCEPT !.respond = "failed",
                                  !.ret = [kind |-> "raised", value |-> 0]]]
  /\ UNCHANGED <<timed, gateway, rec,
                 chatsStarted, chatsCompleted, nl, inv, health, calls, retry>>

\* agent.py:259-261  chat_with_metrics raised: logged and re-raised
ChatRespondFails(t) ==
  /\ chat[t].pc = "respond"
  /\ sent' = ChatMessages(chat[t].current_summary, conversation_history,
                          chat[t].user_message)
  /\ chat' = [chat EXCEPT ![t] =
                 [IdleChat EXCEPT !.respond = "failed",
                                  !.ret = [kind |-> "raised", value |-> 0]]]
  /\ UNCHANGED <<timed, gateway, rec,
                 conversation_history, chatsStarted, chatsCompleted,
                 nl, inv, health, calls, retry>>

\* ------------------------------------------------------------------------
\* Natural-language query pipeline: PrometheusAgent.natural_language_query
\* ------------------------------------------------------------------------

\* Expressions are sequences of characters, so that `"rate(" in promql_query`
\* is a substring test.
RateCall     == <<"r", "a", "t", "e", "(">>
IncreaseCall == <<"i", "n", "c", "r", "e", "a", "s", "e", "(">>

ExprUp        == <<"u", "p">>
ExprRate      == RateCall \o <<"x", ")">>
ExprIncrease  == IncreaseCall \o <<"x", ")">>
ExprIrate     == <<"i">> \o RateCall \o <<"x", ")">>
ExprRateSpace == <<"r", "a", "t", "e", " ", "(", "x", ")">>
ExprSumRate   == <<"s", "u", "m", "(">> \o RateCall \o <<"x", ")", ")">>
ExprInvalid   == <<"x", "(">>

\* texts generate_promql_query may return
Exprs == {ExprUp, ExprRate, ExprIncrease, ExprIrate, ExprRateSpace,
          ExprSumRate, ExprInvalid}

\* natural-language questions
Questions == {"q1", "q2"}

\* result["data"] of the metadata endpoint: a dict (its keys) or another shape
Metadatas == {[is_dict |-> TRUE, keys |-> <<>>],
              [is_dict |-> TRUE, keys |-> <<"up", "cpu_usage">>],
              [is_dict |-> FALSE, keys |-> <<>>]}

\* agent.py:165
AvailableMetrics(metadata) == IF metadata.is_dict THEN metadata.keys ELSE <<>>

\* result["data"] of a query: the result type and, per series, the value
\* string of its sample
Data(resultType, result) == [resultType |-> resultType, result |-> result]

InstantData == {Data("vector", <<>>), Data("vector", <<"1">>),
                Data("vector", <<"1", "x">>), Data("scalar", <<"1">>),
                Data("matrix", <<"85">>)}

RangeData == {Data("matrix", <<>>), Data("matrix", <<"85">>),
              Data("matrix", <<"0", "x">>)}

\* a series of a vector result: its labels and its (timestamp, value) pair
VectorSeries(metric, value) == [metric |-> metric, value |-> value]

\* a series of a matrix result: its labels and its (timestamp, value) pairs
MatrixSeries(metric, values) == [metric |-> metric, values |-> values]

\* labels of the series the pipelines receive
StockLabels == [__name__ |-> "up"]

\* the JSON a Data record stands for: series i has the stock labels and one
\* sample, taken at second i
Payload(data) ==
  [resultType |-> data.resultType,
   result |-> [i \in 1..Len(data.result) |->
                 IF data.resultType = "matrix"
                 THEN MatrixSeries(StockLabels, <<<<i, data.result[i]>>>>)
                 ELSE VectorSeries(StockLabels, <<i, data.result[i]>>)]]

\* the cells of a frame: pd.to_datetime(timestamp, unit='s'), float(value)
\* and the string of a label
DateTimeCell(seconds) == [type |-> "datetime", num |-> seconds, str |-> ""]
FloatCell(number)     == [type |-> "float", num |-> number, str |-> ""]
StrCell(string)       == [type |-> "str", num |-> 0, str |-> string]

\* prometheus_client.py:257-258 and 267-268: the row of a sample; the labels
\* are written over the two columns by row.update(metric)
RowOf(sample, metric) ==
  [c \in {"timestamp", "value"} \cup DOMAIN metric |->
     IF c \in DOMAIN metric THEN StrCell(metric[c])
     ELSE IF c = "timestamp" THEN DateTimeCell(sample[1])
     ELSE FloatCell(FloatOf(sample[2]))]

\* SamplesOf whose matrix branch reads one sample, as the vector branch does
SamplesOf_FirstOnly(resultType, series) ==
  IF resultType = "matrix"
  THEN SubSeq(series.values, 1, Min(Len(series.values), 1))
  ELSE <<series.value>>

\* the samples of a series, as the branch for its result type reads them
\* (prometheus_client.py:256 and 266)
SamplesOf(resultType, series) ==
  IF resultType = "matrix" THEN series.values ELSE <<series.value>>

\* FrameRows that skips the samples float() cannot parse
RECURSIVE FrameRows_SkipMalformed(_, _)
FrameRows_SkipMalformed(resultType, result) ==
  IF result = <<>> THEN <<>>
  ELSE LET series  == Head(result)
           samples == SelectSeq(SamplesOf(resultType, series),
                                LAMBDA sm : IsNumeric(sm[2]))
       IN [j \in 1..Len(samples) |-> RowOf(samples[j], series.metric)]
            \o FrameRows_SkipMalformed(resultType, Tail(result))

\* prometheus_client.py:253-259 and 263-269: the loops over the series and
\* their samples
RECURSIVE FrameRows(_, _)
FrameRows(resultType, result) ==
  IF result = <<>> THEN <<>>
  ELSE LET series  == Head(result)
           samples == SamplesOf(resultType, series)
       IN [j \in 1..Len(samples) |-> RowOf(samples[j], series.metric)]
            \o FrameRows(resultType, Tail(result))

\* every value string of the result is one float() accepts
AllNumeric(resultType, result) ==
  \A i \in 1..Len(result) :
    LET samples == SamplesOf(resultType, result[i])
    IN \A j \in 1..Len(samples) : IsNumeric(samples[j][2])

\* format_query_result_to_dataframe whose last branch handles every other
\* result type as a vector instead of raising
format_query_result_to_dataframe_AnyType(data) ==
  IF AllNumeric(data.resultType, data.result)
  THEN [ok |-> TRUE, rows |-> FrameRows(data.resultType, data.result),
        error |-> NoValue]
  ELSE [ok |-> FALSE, rows |-> <<>>, error |-> "could not convert"]

\* format_query_result_to_dataframe that drops the samples float() cannot
\* parse instead of raising
format_query_result_to_dataframe_SkipMalformed(data) ==
  IF data.resultType \in {"matrix", "vector"}
  THEN [ok |-> TRUE,
        rows |-> FrameRows_SkipMalformed(data.resultType, data.result),
        error |-> NoValue]
  ELSE [ok |-> FALSE, rows |-> <<>>, error |-> "Unsupported result type"]

\* prometheus_client.py:243-273: the frame has one row per sample; float()
\* of a non-numeric string and an unknown result type raise ValueError
format_query_result_to_dataframe(data) ==
  IF data.resultType \in {"matrix", "vector"}
  THEN IF AllNumeric(data.resultType, data.result)
       THEN [ok |-> TRUE, rows |-> FrameRows(data.resultType, data.result),
             error |-> NoValue]
       ELSE [ok |-> FALSE, rows |-> <<>>, error |-> "could not convert"]
  ELSE [ok |-> FALSE, rows |-> <<>>, error |-> "Unsupported result type"]

\* UsesRangeQuery without the test for increase(
UsesRangeQuery_RateOnly(promql_query) == Contains(promql_query, RateCall)

\* agent.py:178
UsesRangeQuery(promql_query) ==
  Contains(promql_query, RateCall) \/ Contains(promql_query, IncreaseCall)

\* one entry of the call log
Call(op, arg, hours, step) ==
  [op |-> op, arg |-> arg, hours |-> hours, step |-> step]

\* agent.py:180-188: the call Execute makes for an expression
ExecuteCall(promql_query) ==
  IF UsesRangeQuery(promql_query)
  THEN Call("query_range", promql_query, DefaultLookbackHours, "1m")
  ELSE Call("query", promql_query, 0, NoValue)

NoReturn ==
  [kind |-> "none", status |-> NoValue, original_query |-> NoValue,
   generated_promql |-> <<>>, error |-> NoValue]

\* agent.py:225-227: the exception leaves natural_language_query
NLRaise(error) == [NoReturn EXCEPT !.kind = "raised", !.error = error]

\* agent.py:200-207
SuccessResult(query, promql_query) ==
  [kind |-> "returned", status |-> "success", original_query |-> query,
   generated_promql |-> promql_query, error |-> NoValue]

\* agent.py:209-214
NoResultsResult(query, promql_query) ==
  [kind |-> "returned", status |-> "no_results", original_query |-> query,
   generated_promql |-> promql_query, error |-> NoValue]

\* QueryErrorResult that leaves the generated expression out
QueryErrorResult_NoExpr(query, promql_query, query_error) ==
  [kind |-> "returned", status |-> "query_error", original_query |-> query,
   generated_promql |-> <<>>, error |-> query_error]

\* agent.py:216-223
QueryErrorResult(query, promql_query, query_error) ==
  [kind |-> "returned", status |-> "query_error", original_query |-> query,
   generated_promql |-> promql_query, error |-> query_error]

IdleNL ==
  [pc |-> "idle", query |-> NoValue, available_metrics |-> <<>>,
   promql_query |-> <<>>, outcome |-> NoValue, result |-> Data(NoValue, <<>>),
   ret |-> NoReturn]

\* natural_language_query(query) is called
NLStart ==
  /\ nl.pc = "idle"
  /\ \E q \in Questions :
       nl' = [IdleNL EXCEPT !.pc = "fetch_metadata", !.query = q]
  /\ UNCHANGED <<timed, gateway, rec, sent, retry,
                 conversation_history, chat, chatsStarted, chatsCompleted,
                 inv, health, calls>>

\* agent.py:164-165  await self.prometheus.get_metrics_metadata()
NLFetchMetadata ==
  /\ nl.pc = "fetch_metadata"
  /\ calls' = Append(calls, Call("get_metrics_metadata", <<>>, 0, NoValue))
  /\ \/ \E md \in Metadatas :
          nl' = [nl EXCEPT !.pc = "generate",
                           !.available_metrics = AvailableMetrics(md)]
     \/ \E e \in GatewayErrors :
          nl' = [nl EXCEPT !.pc = "done", !.ret = NLRaise(e)]
  /\ UNCHANGED <<timed, gateway, rec, sent, retry,
                 conversation_history, chat, chatsStarted, chatsCompleted,
                 inv, health>>

\* NLGenerate that reports the failure of the model as a QueryError
NLGenerate_QueryError ==
  /\ nl.pc = "generate"
  /\ calls' = Append(calls, Call("generate_promql_query", <<>>, 0, NoValue))
  /\ \/ \E e \in Exprs :
          nl' = [nl EXCEPT !.pc = "execute", !.promql_query = e]
     \/ nl' = [nl EXCEPT !.pc = "done",
                 !.ret = QueryErrorResult(nl.query, nl.promql_query,
                                          "OpenAIError")]
  /\ UNCHANGED <<timed, gateway, rec, sent, retry, conversation_history,
                 chat, chatsStarted, chatsCompleted, inv, health>>

\* NLGenerate that swallows the failure of the model and returns nothing
NLGenerate_ReturnsNothing ==
  /\ nl.pc = "generate"
  /\ calls' = Append(calls, Call("generate_promql_query", <<>>, 0, NoValue))
  /\ \/ \E e \in Exprs :
          nl' = [nl EXCEPT !.pc = "execute", !.promql_query = e]
     \/ nl' = [nl EXCEPT !.pc = "done", !.ret = NoReturn]
  /\ UNCHANGED <<timed, gateway, rec, sent, retry, conversation_history,
                 chat, chatsStarted, chatsCompleted, inv, health>>

\* agent.py:168-171  await self.openai.generate_promql_query(...)
NLGenerate ==
  /\ nl.pc = "generate"
  /\ calls' = Append(calls, Call("generate_promql_query", <<>>, 0, NoValue))
  /\ \/ \E e \in Exprs :
          nl' = [nl EXCEPT !.pc = "execute", !.promql_query = e]
     \/ nl' = [nl EXCEPT !.pc = "done", !.ret = NLRaise("OpenAIError")]
  /\ UNCHANGED <<timed, gateway, rec, sent, retry,
                 conversation_history, chat, chatsStarted, chatsCompleted,
                 inv, health>>

\* NLExecute that hands an empty result to the analysis as well
NLExecute_AnalyzeEmpty ==
  /\ nl.pc = "execute"
  /\ calls' = Append(calls, ExecuteCall(nl.promql_query))
  /\ \/ \E d \in (IF UsesRangeQuery(nl.promql_query)
                  THEN RangeData ELSE InstantData) :
          LET df == format_query_result_to_dataframe(Payload(d))
          IN IF df.ok
             THEN nl' = [nl EXCEPT !.pc = "analyze", !.result = d,
                           !.outcome = IF d.result # <<>> THEN "rows"
                                       ELSE "empty"]
             ELSE nl' = [nl EXCEPT !.pc = "done", !.result = d,
                           !.outcome = "rows",
                           !.ret = QueryErrorResult(nl.query,
                                     nl.promql_query, df.error)]
     \/ \E e \in GatewayErrors :
          nl' = [nl EXCEPT !.pc = "done", !.outcome = e,
                   !.ret = QueryErrorResult(nl.query, nl.promql_query, e)]
  /\ UNCHANGED <<timed, gateway, rec, sent, retry,
                 conversation_history, chat, chatsStarted, chatsCompleted,
                 inv, health>>

\* agent.py:174-223  the query is issued; what follows the await runs up to
\* the next await (analyze_metrics) or to the return
NLExecute ==
  /\ nl.pc = "execute"
  /\ calls' = Append(calls, ExecuteCall(nl.promql_query))
  /\ \/ \E d \in (IF UsesRangeQuery(nl.promql_query)
                  THEN RangeData ELSE InstantData) :
          IF d.result # <<>>
          THEN LET df == format_query_result_to_dataframe(Payload(d))
               IN IF df.ok
                  THEN nl' = [nl EXCEPT !.pc = "analyze", !.result = d,
                                        !.outcome = "rows"]
                  ELSE nl' = [nl EXCEPT !.pc = "done", !.result = d,
                                !.outcome = "rows",
                                !.ret = QueryErrorResult(nl.query,
                                          nl.promql_query, df.error)]
          ELSE nl' = [nl EXCEPT !.pc = "done", !.result = d,
                        !.outcome = "empty",
                        !.ret = NoResultsResult(nl.query, nl.promql_query)]
     \/ \E e \in GatewayErrors :
          nl' = [nl EXCEPT !.pc = "done", !.outcome = e,
                   !.ret = QueryErrorResult(nl.query, nl.promql_query, e)]
  /\ UNCHANGED <<timed, gateway, rec, sent, retry,
                 conversation_history, chat, chatsStarted, chatsCompleted,
                 inv, health>>

\* NLAnalyze that also records the question in the conversation window
NLAnalyze_Remember ==
  /\ nl.pc = "analyze"
  /\ calls' = Append(calls, Call("analyze_metrics", <<>>, 0, NoValue))
  /\ conversation_history' = Append(conversation_history, UserTurn(0))
  /\ \/ nl' = [nl EXCEPT !.pc = "done",
                 !.ret = SuccessResult(nl.query, nl.promql_query)]
     \/ nl' = [nl EXCEPT !.pc = "done",
                 !.ret = QueryErrorResult(nl.query, nl.promql_query,
                                          "OpenAIError")]
  /\ UNCHANGED <<timed, gateway, rec, sent, retry, chat, chatsStarted,
                 chatsCompleted, inv, health>>

\* agent.py:195-207 and 216-223  await self.openai.analyze_metrics(...) sits
\* inside the inner try
NLAnalyze ==
  /\ nl.pc = "analyze"
  /\ calls' = Append(calls, Call("analyze_metrics", <<>>, 0, NoValue))
  /\ \/ nl' = [nl EXCEPT !.pc = "done",
                 !.ret = SuccessResult(nl.query, nl.promql_query)]
     \/ nl' = [nl EXCEPT !.pc = "done",
                 !.ret = QueryErrorResult(nl.query, nl.promql_query,
                                          "OpenAIError")]
  /\ UNCHANGED <<timed, gateway, rec, sent, retry,
                 conversation_history, chat, chatsStarted, chatsCompleted,
                 inv, health>>

\* ------------------------------------------------------------------------
\* Alert investigation: PrometheusAgent.investigate_alert and
\* _get_related_metrics
\* ------------------------------------------------------------------------

\* alert names: two that differ only in a special character
\* (test_agent.py:408 asks for "High-CPU_Usage@Server#1")
AlertNames    == {"HighCPU", "High-CPU"}
AskedNames    == AlertNames \cup {"Absent"}
InstanceNames == {"host1"}

\* alerts the backend may report; either label may be missing
Alerts == {Alert(n, i) : n \in AlertNames \cup {NoValue},
                         i \in InstanceNames \cup {NoValue}}

\* longest active-alert list the backend reports
MaxAlerts == 2

ActiveAlertLists == UNION {[1..k -> Alerts] : k \in 0..MaxAlerts}

\* FindAlert without the comparison of the alertname label
FindAlert_AnyAlert(active_alerts, alert_name) ==
  IF active_alerts = <<>> THEN 0 ELSE 1

\* a name with its special characters removed
Stripped(name) == IF name = "High-CPU" THEN "HighCPU" ELSE name

\* FindAlert that compares the names with their special characters removed
FindAlert_Normalized(active_alerts, alert_name) ==
  LET hits == {i \in 1..Len(active_alerts) :
                 Stripped(active_alerts[i].alertname) = Stripped(alert_name)}
  IN IF hits = {} THEN 0
     ELSE CHOOSE i \in hits : \A j \in hits : i <= j

\* agent.py:120-124: position of the first alert whose alertname label
\* equals alert_name, 0 when there is none
FindAlert(active_alerts, alert_name) ==
  LET hits == {i \in 1..Len(active_alerts) :
                 active_alerts[i].alertname = alert_name}
  IN IF hits = {} THEN 0
     ELSE CHOOSE i \in hits : \A j \in hits : i <= j

\* agent.py:306-310
BasicQueries(instance) ==
  <<[metric |-> "up", instance |-> instance],
    [metric |-> "cpu_usage_percent", instance |-> instance],
    [metric |-> "memory_usage_percent", instance |-> instance]>>

\* agent.py:316  query.split("{")[0]
MetricName(query) == query.metric

\* what a probe or a watch-list query may come back with
ProbeData == {Data("vector", <<>>), Data("vector", <<"1">>)}

NoAlert == Alert(NoValue, NoValue)

InvNoReturn ==
  [kind |-> "none", status |-> NoValue, alert |-> NoAlert,
   related_metrics |-> <<>>, error |-> NoValue]

\* agent.py:127-130
NotFoundResult == [InvNoReturn EXCEPT !.kind = "returned",
                                      !.status = "not_found"]

\* agent.py:141-147
InvSuccessResult(target_alert, related_metrics) ==
  [kind |-> "returned", status |-> "success", alert |-> target_alert,
   related_metrics |-> related_metrics, error |-> NoValue]

\* agent.py:149-151
InvRaise(error) == [InvNoReturn EXCEPT !.kind = "raised", !.error = error]

IdleInv ==
  [pc |-> "idle", alert_name |-> NoValue, active_alerts |-> <<>>,
   target_alert |-> NoAlert, probe |-> 0, outcomes |-> <<>>,
   related_metrics |-> <<>>, ret |-> InvNoReturn]

\* investigate_alert(alert_name) is called
InvStart ==
  /\ inv.pc = "idle"
  /\ \E n \in AskedNames :
       inv' = [IdleInv EXCEPT !.pc = "get_alerts", !.alert_name = n]
  /\ UNCHANGED <<timed, gateway, rec, sent, retry,
                 conversation_history, chat, chatsStarted, chatsCompleted,
                 nl, health, calls>>

\* agent.py:117-133 and 297-303  the alert list arrives; Lookup runs, and
\* _get_related_metrics starts, up to its first await
InvGetAlerts ==
  /\ inv.pc = "get_alerts"
  /\ calls' = Append(calls, Call("get_active_alerts", <<>>, 0, NoValue))
  /\ \/ \E al \in ActiveAlertLists :
          LET k == FindAlert(al, inv.alert_name)
          IN IF k = 0
             THEN inv' = [inv EXCEPT !.pc = "done", !.active_alerts = al,
                                     !.ret = NotFoundResult]
             ELSE inv' = [inv EXCEPT
                            !.pc = IF al[k].instance # NoValue
                                   THEN "probe" ELSE "explain",
                            !.probe = IF al[k].instance # NoValue
                                      THEN 1 ELSE 0,
                            !.active_alerts = al,
                            !.target_alert = al[k]]
     \/ \E e \in GatewayErrors :
          inv' = [inv EXCEPT !.pc = "done", !.ret = InvRaise(e)]
  /\ UNCHANGED <<timed, gateway, rec, sent, retry,
                 conversation_history, chat, chatsStarted, chatsCompleted,
                 nl, health>>

\* InvProbe without the try/except around the probe: a failed probe leaves
\* investigate_alert
InvProbe_Fatal ==
  /\ inv.pc = "probe"
  /\ LET queries == BasicQueries(inv.target_alert.instance)
         query   == queries[inv.probe]
         next    == IF inv.probe = Len(queries) THEN "explain" ELSE "probe"
     IN /\ calls' = Append(calls, Call("query", query, 0, NoValue))
        /\ \/ \E d \in ProbeData :
                inv' = [inv EXCEPT
                          !.pc = next,
                          !.probe = inv.probe + 1,
                          !.outcomes = Append(inv.outcomes,
                             IF d.result # <<>> THEN "rows" ELSE "empty"),
                          !.related_metrics =
                             IF d.result # <<>>
                             THEN Append(inv.related_metrics,
                                         MetricName(query))
                             ELSE inv.related_metrics]
           \/ \E e \in GatewayErrors :
                inv' = [inv EXCEPT !.pc = "done",
                                   !.probe = inv.probe + 1,
                                   !.outcomes = Append(inv.outcomes, e),
                                   !.ret = InvRaise(e)]
  /\ UNCHANGED <<timed, gateway, rec, sent, retry,
                 conversation_history, chat, chatsStarted, chatsCompleted,
                 nl, health>>

\* agent.py:312-319  one probe: await self.prometheus.query(query)
InvProbe ==
  /\ inv.pc = "probe"
  /\ LET queries == BasicQueries(inv.target_alert.instance)
         query   == queries[inv.probe]
         next    == IF inv.probe = Len(queries) THEN "explain" ELSE "probe"
     IN /\ calls' = Append(calls, Call("query", query, 0, NoValue))
        /\ \/ \E d \in ProbeData :
                inv' = [inv EXCEPT
                          !.pc = next,
                          !.probe = inv.probe + 1,
                          !.outcomes = Append(inv.outcomes,
                             IF d.result # <<>> THEN "rows" ELSE "empty"),
                          !.related_metrics =
                             IF d.result # <<>>
                             THEN Append(inv.related_metrics,
                                         MetricName(query))
                             ELSE inv.related_metrics]
           \/ \E e \in GatewayErrors :
                inv' = [inv EXCEPT !.pc = next,
                                   !.probe = inv.probe + 1,
                                   !.outcomes = Append(inv.outcomes, e)]
  /\ UNCHANGED <<timed, gateway, rec, sent, retry,
                 conversation_history, chat, chatsStarted, chatsCompleted,
                 nl, health>>

\* agent.py:136-151  await self.openai.explain_alert(...)
InvExplain ==
  /\ inv.pc = "explain"
  /\ calls' = Append(calls, Call("explain_alert", <<>>, 0, NoValue))
  /\ \/ inv' = [inv EXCEPT !.pc = "done",
                  !.ret = InvSuccessResult(inv.target_alert,
                                           inv.related_metrics)]
     \/ inv' = [inv EXCEPT !.pc = "done", !.ret = InvRaise("OpenAIError")]
  /\ UNCHANGED <<timed, gateway, rec, sent, retry,
                 conversation_history, chat, chatsStarted, chatsCompleted,
                 nl, health>>

\* ------------------------------------------------------------------------
\* Health analysis: PrometheusAgent.analyze_system_health
\* ------------------------------------------------------------------------

\* agent.py:44-53
metrics_to_analyze ==
  <<"up", "cpu_usage_percent", "memory_usage_percent", "disk_usage_percent",
    "http_requests_total", "http_request_duration_seconds",
    "process_resident_memory_bytes", "go_memstats_alloc_bytes">>

TimeRanges == {1, 24}

HealthErrors == {TransportError, QueryFailed}

HealthData == {Data("matrix", <<>>), Data("matrix", <<"1">>)}

HealthAlertLists == {<<>>, <<Alert("HighCPU", "host1")>>}

HealthNoReturn ==
  [kind |-> "none", status |-> NoValue, time_range_hours |-> 0,
   metrics_collected |-> <<>>, active_alerts_count |-> 0, error |-> NoValue]

\* agent.py:89-100
HealthSuccessResult(time_range_hours, collected_data, active_alerts) ==
  [kind |-> "returned", status |-> "success",
   time_range_hours |-> time_range_hours,
   metrics_collected |-> collected_data,
   active_alerts_count |-> Len(active_alerts), error |-> NoValue]

\* agent.py:102-104
HealthRaise(error) ==
  [HealthNoReturn EXCEPT !.kind = "raised", !.error = error]

IdleHealth ==
  [pc |-> "idle", time_range_hours |-> 0, metric |-> 0, outcomes |-> <<>>,
   collected_data |-> <<>>, active_alerts |-> <<>>, analysis |-> NoValue,
   ret |-> HealthNoReturn]

\* analyze_system_health(time_range_hours) is called
HealthStart ==
  /\ health.pc = "idle"
  /\ \E h \in TimeRanges :
       health' = [IdleHealth EXCEPT !.pc = "collect_metrics",
                                    !.time_range_hours = h, !.metric = 1]
  /\ UNCHANGED <<timed, gateway, rec, sent, retry,
                 conversation_history, chat, chatsStarted, chatsCompleted,
                 nl, inv, calls>>

\* HealthCollectMetric that walks the watch-list from its end
HealthCollectMetric_Reversed ==
  /\ health.pc = "collect_metrics"
  /\ LET metric == metrics_to_analyze[Len(metrics_to_analyze) + 1
                                        - health.metric]
         next   == IF health.metric = Len(metrics_to_analyze)
                   THEN "collect_alerts" ELSE "collect_metrics"
     IN /\ calls' = Append(calls, Call("query_range", metric,
                                       health.time_range_hours, "1m"))
        /\ \/ \E d \in HealthData :
                health' = [health EXCEPT
                             !.pc = next,
                             !.metric = health.metric + 1,
                             !.outcomes = Append(health.outcomes,
                                IF d.result # <<>> THEN "rows" ELSE "empty"),
                             !.collected_data =
                                IF d.result # <<>>
                                THEN Append(health.collected_data, metric)
                                ELSE health.collected_data]
           \/ \E e \in HealthErrors :
                health' = [health EXCEPT
                             !.pc = next,
                             !.metric = health.metric + 1,
                             !.outcomes = Append(health.outcomes, e)]
  /\ UNCHANGED <<timed, gateway, rec, sent, retry,
                 conversation_history, chat, chatsStarted, chatsCompleted,
                 nl, inv>>

\* HealthCollectMetric without the inner try/except: a failed range query
\* reaches the outer handler and is re-raised
HealthCollectMetric_Abort ==
  /\ health.pc = "collect_metrics"
  /\ LET metric == metrics_to_analyze[health.metric]
         next   == IF health.metric = Len(metrics_to_analyze)
                   THEN "collect_alerts" ELSE "collect_metrics"
     IN /\ calls' = Append(calls, Call("query_range", metric,
                                       health.time_range_hours, "1m"))
        /\ \/ \E d \in HealthData :
                health' = [health EXCEPT
                             !.pc = next,
                             !.metric = health.metric + 1,
                             !.outcomes = Append(health.outcomes,
                                IF d.result # <<>> THEN "rows" ELSE "empty"),
                             !.collected_data =
                                IF d.result # <<>>
                                THEN Append(health.collected_data, metric)
                                ELSE health.collected_data]
           \/ \E e \in HealthErrors :
                health' = [health EXCEPT
                             !.pc = "done",
                             !.metric = health.metric + 1,
                             !.outcomes = Append(health.outcomes, e),
                             !.ret = HealthRaise(e)]
  /\ UNCHANGED <<timed, gateway, rec, sent, retry,
                 conversation_history, chat, chatsStarted, chatsCompleted,
                 nl, inv>>

\* agent.py:57-70  one iteration of the loop over metrics_to_analyze
HealthCollectMetric ==
  /\ health.pc = "collect_metrics"
  /\ LET metric == metrics_to_analyze[health.metric]
         next   == IF health.metric = Len(metrics_to_analyze)
                   THEN "collect_alerts" ELSE "collect_metrics"
     IN /\ calls' = Append(calls, Call("query_range", metric,
                                       health.time_range_hours, "1m"))
        /\ \/ \E d \in HealthData :
                health' = [health EXCEPT
                             !.pc = next,
                             !.metric = health.metric + 1,
                             !.outcomes = Append(health.outcomes,
                                IF d.result # <<>> THEN "rows" ELSE "empty"),
                             !.collected_data =
                                IF d.result # <<>>
                                THEN Append(health.collected_data, metric)
                                ELSE health.collected_data]
           \/ \E e \in HealthErrors :
                health' = [health EXCEPT
                             !.pc = next,
                             !.metric = health.metric + 1,
                             !.outcomes = Append(health.outcomes, e)]
  /\ UNCHANGED <<timed, gateway, rec, sent, retry,
                 conversation_history, chat, chatsStarted, chatsCompleted,
                 nl, inv>>

\* HealthCollectAlerts under the partial-success policy: a failed fetch ends
\* the analysis with a success payload that reports no alert
HealthCollectAlerts_Partial ==
  /\ health.pc = "collect_alerts"
  /\ calls' = Append(calls, Call("get_active_alerts", NoValue, 0, NoValue))
  /\ \/ \E al \in HealthAlertLists :
          health' = [health EXCEPT !.pc = "synthesize", !.active_alerts = al]
     \/ \E e \in HealthErrors :
          health' = [health EXCEPT
                       !.pc = "done",
                       !.ret = HealthSuccessResult(health.time_range_hours,
                                                   health.collected_data,
                                                   <<>>)]
  /\ UNCHANGED <<timed, gateway, rec, sent, retry,
                 conversation_history, chat, chatsStarted, chatsCompleted,
                 nl, inv>>

\* agent.py:73  await self.prometheus.get_active_alerts()
HealthCollectAlerts ==
  /\ health.pc = "collect_alerts"
  /\ calls' = Append(calls, Call("get_active_alerts", NoValue, 0, NoValue))
  /\ \/ \E al \in HealthAlertLists :
          health' = [health EXCEPT !.pc = "synthesize", !.active_alerts = al]
     \/ \E e \in HealthErrors :
          health' = [health EXCEPT !.pc = "done", !.ret = HealthRaise(e)]
  /\ UNCHANGED <<timed, gateway, rec, sent, retry,
                 conversation_history, chat, chatsStarted, chatsCompleted,
                 nl, inv>>

\* HealthSynthesize with the failure of analyze_metrics caught: the payload
\* is returned without an analysis
HealthSynthesize_Swallow ==
  /\ health.pc = "synthesize"
  /\ calls' = Append(calls, Call("analyze_metrics", NoValue, 0, NoValue))
  /\ \/ health' = [health EXCEPT !.pc = "done", !.analysis = "ok",
                     !.ret = HealthSuccessResult(health.time_range_hours,
                                                 health.collected_data,
                                                 health.active_alerts)]
     \/ health' = [health EXCEPT !.pc = "done", !.analysis = "failed",
                     !.ret = HealthSuccessResult(health.time_range_hours,
                                                 health.collected_data,
                                                 health.active_alerts)]
  /\ UNCHANGED <<timed, gateway, rec, sent, retry,
                 conversation_history, chat, chatsStarted, chatsCompleted,
                 nl, inv>>

\* agent.py:84-104  await self.openai.analyze_metrics(...); `analysis` notes
\* whether the reasoning client answered or raised
HealthSynthesize ==
  /\ health.pc = "synthesize"
  /\ calls' = Append(calls, Call("analyze_metrics", NoValue, 0, NoValue))
  /\ \/ health' = [health EXCEPT !.pc = "done", !.analysis = "ok",
                     !.ret = HealthSuccessResult(health.time_range_hours,
                                                 health.collected_data,
                                                 health.active_alerts)]
     \/ health' = [health EXCEPT !.pc = "done", !.analysis = "failed",
                     !.ret = HealthRaise("OpenAIError")]
  /\ UNCHANGED <<timed, gateway, rec, sent, retry,
                 conversation_history, chat, chatsStarted, chatsCompleted,
                 nl, inv>>

\* ------------------------------------------------------------------------
\* Retry wrapper: retry_async (src/src/core/utils.py)
\* ------------------------------------------------------------------------

\* largest max_retries a call site is decorated with
MaxRetries == 3

\* delay and backoff of a call site (seconds, multiplier)
Delays   == {1, 2}
Backoffs == {1, 2}

\* what the wrapped coroutine may raise or return
CallErrors == {"e1", "e2"}
CallValues == {"v1", "v2"}

\* asyncio.CancelledError, a BaseException: `except Exception` lets it pass
CancelledError == "CancelledError"

\* AttemptCeiling with one attempt too many
AttemptCeiling_Plus(max_retries) == max_retries + 1

\* utils.py:177 and 182: the index of the last attempt of
\* `for attempt in range(max_retries + 1)`
AttemptCeiling(max_retries) == max_retries

RetryNoReturn == [kind |-> "none", value |-> NoValue, error |-> NoValue]

RetryReturn(value) == [RetryNoReturn EXCEPT !.kind = "returned",
                                            !.value = value]

RetryRaise(error) == [RetryNoReturn EXCEPT !.kind = "raised",
                                           !.error = error]

\* `started` counts the calls of the wrapped coroutine, `attempts` holds what
\* each finished call gave, `waits` the sleeps requested, `cancelled` whether
\* the caller cancelled the wrapper
IdleRetry ==
  [pc |-> "idle", max_retries |-> 0, delay |-> 0, backoff |-> 0,
   attempt |-> 0, current_delay |-> 0, last_exception |-> NoValue,
   started |-> 0, attempts |-> <<>>, waits |-> <<>>, cancelled |-> FALSE,
   ret |-> RetryNoReturn]

\* utils.py:173-179  the wrapper is called and awaits the first attempt
RetryStart ==
  /\ retry.pc = "idle"
  /\ \E m \in 0..MaxRetries, d \in Delays, b \in Backoffs :
       retry' = [IdleRetry EXCEPT !.pc = "call", !.max_retries = m,
                                  !.delay = d, !.backoff = b,
                                  !.current_delay = d, !.started = 1]
  /\ UNCHANGED <<timed, gateway, rec,
                 conversation_history, chat, chatsStarted, chatsCompleted,
                 nl, inv, health, calls, sent>>

\* RetryAttempt that keeps the first exception it saw and raises that one
RetryAttempt_RaiseFirst ==
  /\ retry.pc = "call"
  /\ \/ \E v \in CallValues :
          retry' = [retry EXCEPT !.pc = "done",
                                 !.attempts = Append(retry.attempts, v),
                                 !.ret = RetryReturn(v)]
     \/ \E e \in CallErrors :
          LET first == IF retry.last_exception = NoValue
                       THEN e ELSE retry.last_exception
          IN IF retry.attempt = AttemptCeiling(retry.max_retries)
             THEN retry' = [retry EXCEPT
                              !.pc = "done",
                              !.attempts = Append(retry.attempts, e),
                              !.last_exception = first,
                              !.ret = RetryRaise(first)]
             ELSE retry' = [retry EXCEPT
                              !.pc = "sleep",
                              !.attempts = Append(retry.attempts, e),
                              !.last_exception = first,
                              !.waits = Append(retry.waits,
                                               retry.current_delay)]
  /\ UNCHANGED <<timed, gateway, rec,
                 conversation_history, chat, chatsStarted, chatsCompleted,
                 nl, inv, health, calls, sent>>

\* RetryAttempt without the `return`: the loop goes on after a success
RetryAttempt_NoReturn ==
  /\ retry.pc = "call"
  /\ \/ \E v \in CallValues :
          IF retry.attempt = AttemptCeiling(retry.max_retries)
          THEN retry' = [retry EXCEPT
                           !.pc = "done",
                           !.attempts = Append(retry.attempts, v),
                           !.ret = RetryRaise(retry.last_exception)]
          ELSE retry' = [retry EXCEPT
                           !.attempt = retry.attempt + 1,
                           !.started = retry.started + 1,
                           !.attempts = Append(retry.attempts, v)]
     \/ \E e \in CallErrors :
          IF retry.attempt = AttemptCeiling(retry.max_retries)
          THEN retry' = [retry EXCEPT
                           !.pc = "done",
                           !.attempts = Append(retry.attempts, e),
                           !.last_exception = e,
                           !.ret = RetryRaise(e)]
          ELSE retry' = [retry EXCEPT
                           !.pc = "sleep",
                           !.attempts = Append(retry.attempts, e),
                           !.last_exception = e,
                           !.waits = Append(retry.waits, retry.current_delay)]
  /\ UNCHANGED <<timed, gateway, rec,
                 conversation_history, chat, chatsStarted, chatsCompleted,
                 nl, inv, health, calls, sent>>

\* utils.py:178-200  the awaited attempt ends: its value is returned, or its
\* exception is re-raised on the last attempt and followed by a sleep
\* otherwise
RetryAttempt ==
  /\ retry.pc = "call"
  /\ \/ \E v \in CallValues :
          retry' = [retry EXCEPT !.pc = "done",
                                 !.attempts = Append(retry.attempts, v),
                                 !.ret = RetryReturn(v)]
     \/ \E e \in CallErrors :
          IF retry.attempt = AttemptCeiling(retry.max_retries)
          THEN retry' = [retry EXCEPT
                           !.pc = "done",
                           !.attempts = Append(retry.attempts, e),
                           !.last_exception = e,
                           !.ret = RetryRaise(e)]
          ELSE retry' = [retry EXCEPT
                           !.pc = "sleep",
                           !.attempts = Append(retry.attempts, e),
                           !.last_exception = e,
                           !.waits = Append(retry.waits, retry.current_delay)]
  /\ UNCHANGED <<timed, gateway, rec,
                 conversation_history, chat, chatsStarted, chatsCompleted,
                 nl, inv, health, calls, sent>>

\* RetrySleep that leaves the delay as it is
RetrySleep_ConstantDelay ==
  /\ retry.pc = "sleep"
  /\ IF retry.attempt + 1 <= AttemptCeiling(retry.max_retries)
     THEN retry' = [retry EXCEPT
                      !.pc = "call",
                      !.attempt = retry.attempt + 1,
                      !.started = retry.started + 1]
     ELSE retry' = [retry EXCEPT
                      !.pc = "done",
                      !.ret = RetryRaise(retry.last_exception)]
  /\ UNCHANGED <<timed, gateway, rec,
                 conversation_history, chat, chatsStarted, chatsCompleted,
                 nl, inv, health, calls, sent>>

\* utils.py:200-204 and 177-179  the sleep ends, the delay is multiplied and
\* the loop starts the next attempt, or falls out of the range
RetrySleep ==
  /\ retry.pc = "sleep"
  /\ IF retry.attempt + 1 <= AttemptCeiling(retry.max_retries)
     THEN retry' = [retry EXCEPT
                      !.pc = "call",
                      !.attempt = retry.attempt + 1,
                      !.current_delay = retry.current_delay * retry.backoff,
                      !.started = retry.started + 1]
     ELSE retry' = [retry EXCEPT
                      !.pc = "done",
                      !.current_delay = retry.current_delay * retry.backoff,
                      !.ret = RetryRaise(retry.last_exception)]
  /\ UNCHANGED <<timed, gateway, rec,
                 conversation_history, chat, chatsStarted, chatsCompleted,
                 nl, inv, health, calls, sent>>

\* the caller cancels the wrapper while it is suspended in the attempt
\* (utils.py:179) or in the sleep (utils.py:200): CancelledError is raised at
\* the await and no handler of the wrapper catches it
RetryCancel ==
  /\ retry.pc \in {"call", "sleep"}
  /\ retry' = [retry EXCEPT !.pc = "done", !.cancelled = TRUE,
                            !.ret = RetryRaise(CancelledError)]
  /\ UNCHANGED <<timed, gateway, rec,
                 conversation_history, chat, chatsStarted, chatsCompleted,
                 nl, inv, health, calls, sent>>

\* ------------------------------------------------------------------------
\* Metrics gateway: PrometheusClient.format_query_result_to_dataframe, query
\* and get_alerting_rules (src/src/core/prometheus_client.py)
\* ------------------------------------------------------------------------

\* most series in a query result, most samples in a series of a matrix
MaxSeries  == 2
MaxSamples == 2

\* most rule groups in a rules response, most rules in a group
MaxGroups == 2
MaxRules  == 2

\* the sequences over S of length at most n
SeqsUpTo(S, n) == UNION {[1..k -> S] : k \in 0..n}

\* label sets of a series; a label may be called like a column of the frame
LabelSets == {[__name__ |-> "up"],
              [__name__ |-> "up", instance |-> "host1"],
              [__name__ |-> "m", value |-> "9"]}

VectorSeriesSet ==
  {VectorSeries(m, <<t, v>>) :
     m \in LabelSets, t \in {10, 20}, v \in {"1", "85", "x"}}

VectorResults ==
  {[resultType |-> "vector", result |-> r] :
     r \in SeqsUpTo(VectorSeriesSet, MaxSeries)}

MatrixSamples == {<<10, "1">>, <<20, "85">>, <<10, "x">>}

MatrixSeriesSet ==
  {MatrixSeries([__name__ |-> "up", instance |-> "host1"], vs) :
     vs \in SeqsUpTo(MatrixSamples, MaxSamples)}

MatrixResults ==
  {[resultType |-> "matrix", result |-> r] :
     r \in SeqsUpTo(MatrixSeriesSet, MaxSeries)}

\* results of another type, with an empty payload and with one that a vector
\* could carry
OtherResults ==
  {[resultType |-> rt, result |-> r] :
     rt \in {"scalar", "string"},
     r \in {<<>>, <<VectorSeries([__name__ |-> "up"], <<10, "1">>)>>}}

FormatInputs == VectorResults \cup MatrixResults \cup OtherResults

\* a rule of a group: its type and its name
Rule(type, name) == [type |-> type, name |-> name]

Rules == {Rule("alerting", "a1"), Rule("alerting", "a2"),
          Rule("recording", "r1")}

\* result["data"]["groups"] of the rules endpoint
RuleGroups ==
  SeqsUpTo({[rules |-> rs] : rs \in SeqsUpTo(Rules, MaxRules)}, MaxGroups)

\* IsAlertingRule that lets every rule pass
IsAlertingRule_Any(rule) == rule.type \in {"alerting", "recording"}

\* prometheus_client.py:195
IsAlertingRule(rule) == rule.type = "alerting"

\* prometheus_client.py:192-198
RECURSIVE AlertingRules(_)
AlertingRules(groups) ==
  IF groups = <<>> THEN <<>>
  ELSE SelectSeq(Head(groups).rules, IsAlertingRule)
         \o AlertingRules(Tail(groups))

GatewayNoReturn == [kind |-> "none", value |-> NoValue, error |-> NoValue]

GatewayReturn(value) == [GatewayNoReturn EXCEPT !.kind = "returned",
                                                !.value = value]

GatewayRaise(error) == [GatewayNoReturn EXCEPT !.kind = "raised",
                                               !.error = error]

\* `response` is what the backend answered, when it did (`answered`)
IdleGateway ==
  [pc |-> "idle", op |-> NoValue, input |-> NoValue, answered |-> FALSE,
   response |-> NoValue, ret |-> GatewayNoReturn]

\* prometheus_client.py:243-273  format_query_result_to_dataframe(result)
GatewayFormat ==
  /\ gateway.pc = "idle"
  /\ \E d \in FormatInputs :
       LET df == format_query_result_to_dataframe(d)
       IN gateway' = [IdleGateway EXCEPT
                        !.pc = "done", !.op = "format", !.input = d,
                        !.ret = IF df.ok THEN GatewayReturn(df.rows)
                                ELSE GatewayRaise(df.error)]
  /\ UNCHANGED <<agentVars, timed, rec>>

\* prometheus_client.py:46-54  query(query) up to the await of session.get
GatewayQueryCall ==
  /\ gateway.pc = "idle"
  /\ \E e \in {ExprUp, ExprInvalid} :
       gateway' = [IdleGateway EXCEPT !.pc = "awaiting", !.op = "query",
                                      !.input = e]
  /\ UNCHANGED <<agentVars, timed, rec>>

\* prometheus_client.py:55-65  the response: an exception of the transport,
\* of raise_for_status or of the status test, or result["data"] as it is
GatewayQueryResponse ==
  /\ gateway.pc = "awaiting"
  /\ gateway.op = "query"
  /\ \/ \E e \in GatewayErrors :
          gateway' = [gateway EXCEPT !.pc = "done", !.ret = GatewayRaise(e)]
     \/ \E d \in InstantData :
          gateway' = [gateway EXCEPT !.pc = "done", !.answered = TRUE,
                                     !.response = d,
                                     !.ret = GatewayReturn(d)]
  /\ UNCHANGED <<agentVars, timed, rec>>

\* prometheus_client.py:184-185  get_alerting_rules() up to the await
GatewayRulesCall ==
  /\ gateway.pc = "idle"
  /\ gateway' = [IdleGateway EXCEPT !.pc = "awaiting",
                                    !.op = "get_alerting_rules"]
  /\ UNCHANGED <<agentVars, timed, rec>>

\* prometheus_client.py:186-202
GatewayRulesResponse ==
  /\ gateway.pc = "awaiting"
  /\ gateway.op = "get_alerting_rules"
  /\ \/ \E e \in GatewayErrors :
          gateway' = [gateway EXCEPT !.pc = "done", !.ret = GatewayRaise(e)]
     \/ \E groups \in RuleGroups :
          gateway' = [gateway EXCEPT !.pc = "done", !.answered = TRUE,
                                     !.response = groups,
                                     !.ret = GatewayReturn(
                                               AlertingRules(groups))]
  /\ UNCHANGED <<agentVars, timed, rec>>

\* ------------------------------------------------------------------------
\* Monitoring recommendations: PrometheusAgent.get_monitoring_recommendations
\* ------------------------------------------------------------------------

SystemDescriptions == {"", "web shop"}

RecNoReturn == [kind |-> "none", value |-> NoValue, error |-> NoValue]

IdleRec ==
  [pc |-> "idle", system_description |-> NoValue, current_metrics |-> <<>>,
   ret |-> RecNoReturn]

\* agent.py:263-274  get_monitoring_recommendations(system_description)
RecStart ==
  /\ rec.pc = "idle"
  /\ \E d \in SystemDescriptions :
       rec' = [IdleRec EXCEPT !.pc = "fetch_metadata",
                              !.system_description = d]
  /\ UNCHANGED <<agentVars, timed, gateway>>

\* agent.py:274-275  await self.prometheus.get_metrics_metadata()
RecFetchMetadata ==
  /\ rec.pc = "fetch_metadata"
  /\ \/ \E md \in Metadatas :
          rec' = [rec EXCEPT !.pc = "suggest",
                             !.current_metrics = AvailableMetrics(md)]
     \/ \E e \in GatewayErrors :
          rec' = [rec EXCEPT !.pc = "done",
                             !.ret = [RecNoReturn EXCEPT !.kind = "raised",
                                                         !.error = e]]
  /\ UNCHANGED <<agentVars, timed, gateway>>

\* agent.py:277-286  await self.openai.suggest_monitoring_improvements(...)
RecSuggest ==
  /\ rec.pc = "suggest"
  /\ \/ \E r \in Replies :
          rec' = [rec EXCEPT !.pc = "done",
                             !.ret = [RecNoReturn EXCEPT !.kind = "returned",
                                                         !.value = r]]
     \/ rec' = [rec EXCEPT !.pc = "done",
                           !.ret = [RecNoReturn EXCEPT !.kind = "raised",
                                                       !.error = "OpenAIError"]]
  /\ UNCHANGED <<agentVars, timed, gateway>>

\* ------------------------------------------------------------------------
\* TTL cache: TimedCache (src/src/core/utils.py)
\* ------------------------------------------------------------------------

\* last reading of the clock
MaxTime == 4

\* the threads that share one TimedCache: a race takes two
CacheThreads == {1, 2}

\* inputs of the cache: time-to-live in seconds, keys and values
Ttls        == {1, 2}
CacheKeys   == {"k1", "k2"}
CacheValues == {"a", "b"}

\* a slot of self.cache: absent, or the dict set() stores
NoEntry == [present |-> FALSE, value |-> NoValue, timestamp |-> 0]

Entry(value, timestamp) ==
  [present |-> TRUE, value |-> value, timestamp |-> timestamp]

\* Fresh with the operands of the subtraction exchanged
Fresh_Reversed(now, timestamp, ttl_seconds) == timestamp - now < ttl_seconds

\* utils.py:344
Fresh(now, timestamp, ttl_seconds) == now - timestamp < ttl_seconds

CacheNoReturn == [kind |-> "none", value |-> NoValue]

\* utils.py:345 return entry['value'], utils.py:349 return None, and the
\* KeyError of a subscript or del on a key that is gone
CacheHit(value) == [kind |-> "hit", value |-> value]
CacheMiss       == [kind |-> "miss", value |-> NoValue]
CacheKeyError   == [kind |-> "raised", value |-> "KeyError"]

\* frame of a caller: `entry` is the local of get() while it runs, `at` the
\* clock when a get() ended
IdleCall ==
  [pc |-> "idle", op |-> NoValue, key |-> NoValue, entry |-> NoEntry,
   at |-> 0, ret |-> CacheNoReturn]

\* `stored` keeps, per key, what the latest set() stored, until clear()
IdleTimed ==
  [ttl_seconds |-> 0,
   cache |-> [k \in CacheKeys |-> NoEntry],
   now |-> 0,
   call |-> [th \in CacheThreads |-> IdleCall],
   stored |-> [k \in CacheKeys |-> NoEntry]]

\* utils.py:324-331  TimedCache(ttl_seconds)
CacheNew ==
  /\ timed.ttl_seconds = 0
  /\ \E ttl \in Ttls : timed' = [timed EXCEPT !.ttl_seconds = ttl]
  /\ UNCHANGED <<agentVars, gateway, rec>>

\* CacheTick with a sweep: the entries that have expired are removed as the
\* time passes
CacheTick_Sweep ==
  /\ timed.ttl_seconds > 0
  /\ timed.now < MaxTime
  /\ timed' = [timed EXCEPT
                 !.now = timed.now + 1,
                 !.cache = [k \in CacheKeys |->
                              IF /\ timed.cache[k].present
                                 /\ timed.now + 1 - timed.cache[k].timestamp
                                      >= timed.ttl_seconds
                              THEN NoEntry ELSE timed.cache[k]]]
  /\ UNCHANGED <<agentVars, gateway, rec>>

\* time.time() moves on
CacheTick ==
  /\ timed.ttl_seconds > 0
  /\ timed.now < MaxTime
  /\ timed' = [timed EXCEPT !.now = timed.now + 1]
  /\ UNCHANGED <<agentVars, gateway, rec>>

\* utils.py:342  get(key) is called: `if key in self.cache`
CacheGetContains(th) ==
  /\ timed.ttl_seconds > 0
  /\ timed.call[th].pc = "idle"
  /\ \E k \in CacheKeys :
       timed' = [timed EXCEPT !.call[th] =
                   IF timed.cache[k].present
                   THEN [IdleCall EXCEPT !.pc = "load", !.op = "get",
                                         !.key = k]
                   ELSE [IdleCall EXCEPT !.op = "get", !.key = k,
                                         !.at = timed.now,
                                         !.ret = CacheMiss]]
  /\ UNCHANGED <<agentVars, gateway, rec>>

\* utils.py:343  entry = self.cache[key]
CacheGetLoad(th) ==
  /\ timed.call[th].pc = "load"
  /\ LET c == timed.call[th]
     IN timed' = [timed EXCEPT !.call[th] =
                    IF timed.cache[c.key].present
                    THEN [c EXCEPT !.pc = "check",
                                   !.entry = timed.cache[c.key]]
                    ELSE [c EXCEPT !.pc = "idle", !.at = timed.now,
                                   !.ret = CacheKeyError]]
  /\ UNCHANGED <<agentVars, gateway, rec>>

\* utils.py:344-345  the age test and the return of the value
CacheGetCheck(th) ==
  /\ timed.call[th].pc = "check"
  /\ LET c == timed.call[th]
     IN timed' = [timed EXCEPT !.call[th] =
                    IF Fresh(timed.now, c.entry.timestamp, timed.ttl_seconds)
                    THEN [c EXCEPT !.pc = "idle", !.at = timed.now,
                                   !.entry = NoEntry,
                                   !.ret = CacheHit(c.entry.value)]
                    ELSE [c EXCEPT !.pc = "delete"]]
  /\ UNCHANGED <<agentVars, gateway, rec>>

\* utils.py:347-349  del self.cache[key]; return None
CacheGetDelete(th) ==
  /\ timed.call[th].pc = "delete"
  /\ LET c == timed.call[th]
     IN IF timed.cache[c.key].present
        THEN timed' = [timed EXCEPT
                         !.cache[c.key] = NoEntry,
                         !.call[th] = [c EXCEPT !.pc = "idle",
                                                !.at = timed.now,
                                                !.entry = NoEntry,
                                                !.ret = CacheMiss]]
        ELSE timed' = [timed EXCEPT
                         !.call[th] = [c EXCEPT !.pc = "idle",
                                                !.at = timed.now,
                                                !.entry = NoEntry,
                                                !.ret = CacheKeyError]]
  /\ UNCHANGED <<agentVars, gateway, rec>>

\* utils.py:358-361  set(key, value)
CacheSet(th) ==
  /\ timed.ttl_seconds > 0
  /\ timed.call[th].pc = "idle"
  /\ \E k \in CacheKeys, v \in CacheValues :
       timed' = [timed EXCEPT
                   !.cache[k] = Entry(v, timed.now),
                   !.stored[k] = Entry(v, timed.now),
                   !.call[th] = [IdleCall EXCEPT !.op = "set", !.key = k]]
  /\ UNCHANGED <<agentVars, gateway, rec>>

\* utils.py:363-365  clear()
CacheClear(th) ==
  /\ timed.ttl_seconds > 0
  /\ timed.call[th].pc = "idle"
  /\ timed' = [timed EXCEPT
                 !.cache = [k \in CacheKeys |-> NoEntry],
                 !.stored = [k \in CacheKeys |-> NoEntry],
                 !.call[th] = [IdleCall EXCEPT !.op = "clear"]]
  /\ UNCHANGED <<agentVars, gateway, rec>>

\* the calls one thread can make
CacheStep(th) ==
  \/ CacheGetContains(th)
  \/ CacheGetLoad(th)
  \/ CacheGetCheck(th)
  \/ CacheGetDelete(th)
  \/ CacheSet(th)
  \/ CacheClear(th)

\* ------------------------------------------------------------------------
\* Specifications: one per pipeline, over the same state
\* ------------------------------------------------------------------------

\* PrometheusAgent.__init__ (agent.py:26-28), no pipeline running
Init ==
  /\ conversation_history = <<>>
  /\ chat = [t \in ChatTasks |-> IdleChat]
  /\ chatsStarted = 0
  /\ chatsCompleted = 0
  /\ nl = IdleNL
  /\ inv = IdleInv
  /\ health = IdleHealth
  /\ calls = <<>>
  /\ sent = <<>>
  /\ retry = IdleRetry
  /\ timed = IdleTimed
  /\ gateway = IdleGateway
  /\ rec = IdleRec

\* an orchestrator whose window already holds turns, as the tests build it
\* (test_agent.py:259-261)
InitChat ==
  /\ \E k \in StartLens : conversation_history = PreFill(k)
  /\ chat = [t \in ChatTasks |-> IdleChat]
  /\ chatsStarted = 0
  /\ chatsCompleted = 0
  /\ nl = IdleNL
  /\ inv = IdleInv
  /\ health = IdleHealth
  /\ calls = <<>>
  /\ sent = <<>>
  /\ retry = IdleRetry
  /\ timed = IdleTimed
  /\ gateway = IdleGateway
  /\ rec = IdleRec

\* the windows chat() itself leaves behind from an empty start: empty, or
\* full of user/assistant pairs (agent.py:250-255)
PairedStartLens == {0, WindowCap}

InitChatPaired ==
  /\ \E k \in PairedStartLens : conversation_history = PreFill(k)
  /\ chat = [t \in ChatTasks |-> IdleChat]
  /\ chatsStarted = 0
  /\ chatsCompleted = 0
  /\ nl = IdleNL
  /\ inv = IdleInv
  /\ health = IdleHealth
  /\ calls = <<>>
  /\ sent = <<>>
  /\ retry = IdleRetry
  /\ timed = IdleTimed
  /\ gateway = IdleGateway
  /\ rec = IdleRec

NextChat ==
  \E t \in ChatTasks :
    \/ ChatStart(t)
    \/ ChatQueryUp(t)
    \/ ChatGetAlerts(t)
    \/ ChatRespond(t)
    \/ ChatRespondFails(t)

NextNL == NLStart \/ NLFetchMetadata \/ NLGenerate \/ NLExecute \/ NLAnalyze

NextInv == InvStart \/ InvGetAlerts \/ InvProbe \/ InvExplain

NextHealth ==
  HealthStart \/ HealthCollectMetric \/ HealthCollectAlerts
    \/ HealthSynthesize

\* the cache used by one caller, call after call
NextCache == CacheNew \/ CacheTick \/ CacheStep(1)

\* the cache shared by threads, which the interpreter may switch between any
\* two of the steps above
NextCacheRace == CacheNew \/ CacheTick \/ \E th \in CacheThreads : CacheStep(th)

NextGateway ==
  GatewayFormat \/ GatewayQueryCall \/ GatewayQueryResponse
    \/ GatewayRulesCall \/ GatewayRulesResponse

NextRec == RecStart \/ RecFetchMetadata \/ RecSuggest

\* The load the surrounding service puts on one orchestrator in a behaviour
\* of SpecAgent: one chat call, from any of the callers, and one call
\* of one of the other four entry points, whose backend answers every metric
\* query of a sweep alike and reports at most one active alert.
AgentWorkload ==
  /\ chatsStarted <= 1
  /\ Cardinality({p \in {"nl", "inv", "health", "rec"} :
                    CASE p = "nl"     -> nl.pc # "idle"
                      [] p = "inv"    -> inv.pc # "idle"
                      [] p = "health" -> health.pc # "idle"
                      [] p = "rec"    -> rec.pc # "idle"}) <= 1
  /\ \A i \in 1..Len(health.outcomes) : health.outcomes[i] = health.outcomes[1]
  /\ Len(inv.active_alerts) <= 1

\* the steps of the five entry points of PrometheusAgent under that load
AgentChat   == NextChat /\ AgentWorkload'
AgentNL     == NextNL /\ AgentWorkload'
AgentInv    == NextInv /\ AgentWorkload'
AgentHealth == NextHealth /\ AgentWorkload'
AgentRec    == NextRec /\ AgentWorkload'

NextAgent == AgentChat \/ AgentNL \/ AgentInv \/ AgentHealth \/ AgentRec

NextRetry == RetryStart \/ RetryAttempt \/ RetrySleep \/ RetryCancel

Next == NextChat \/ NextNL \/ NextInv \/ NextHealth \/ NextRetry
          \/ NextCacheRace \/ NextGateway \/ NextRec

SpecChat   == InitChat /\ [][NextChat]_vars
SpecChatPaired == InitChatPaired /\ [][NextChat]_vars
SpecNL     == Init /\ [][NextNL]_vars
SpecInv    == Init /\ [][NextInv]_vars
SpecHealth == Init /\ [][NextHealth]_vars
SpecRetry  == Init /\ [][NextRetry]_vars
SpecAgent  == Init /\ [][NextAgent]_vars

\* every call to a backend that a pipeline awaits returns or fails
SpecAgentFair ==
  /\ Init
  /\ [][NextAgent]_vars
  /\ WF_vars(AgentChat)
  /\ WF_vars(AgentNL)
  /\ WF_vars(AgentInv)
  /\ WF_vars(AgentHealth)
  /\ WF_vars(AgentRec)

SpecGateway == Init /\ [][NextGateway]_vars
SpecCache  == Init /\ [][NextCache]_vars
SpecCacheRace == Init /\ [][NextCacheRace]_vars

\* ------------------------------------------------------------------------
\* Properties of the chat window (SpecChat)
\* ------------------------------------------------------------------------

\* C1: once a chat invocation has completed on the orchestrator, the
\* conversation window holds at most 20 turns, whatever the window held at
\* the start and however the chat invocations interleave.
C1_WindowAtMostCap ==
  chatsCompleted > 0 => Len(conversation_history) <= WindowCap

\* a chat completed on a window that started above the capacity and was cut
\* back to it, while another caller is suspended in its own chat
C1_Witness ==
  /\ chatsCompleted >= 1
  /\ Len(conversation_history) = WindowCap
  /\ conversation_history[1].content \in 4..MaxStart
  /\ conversation_history[WindowCap].content \in Replies
  /\ \E t \in ChatTasks : chat[t].pc \in {"query_up", "get_alerts", "respond"}

\* the step in which task t returns a reply
ChatReturns(t) ==
  /\ chat[t].pc = "respond"
  /\ chat'[t].pc = "idle"
  /\ chat'[t].ret.kind = "returned"

\* C2: a successful chat(message) with reply r leaves the window equal to the
\* last 20 elements of the previous window followed by the user turn and the
\* assistant turn: eviction is from the front only, the survivors keep order
\* and content, and the two newest entries are the message and its reply.
C2_AppendKeepsNewest ==
  [][\A t \in ChatTasks :
       ChatReturns(t) =>
         LET full == conversation_history
                       \o <<[role |-> "user",
                             content |-> chat[t].user_message],
                            [role |-> "assistant",
                             content |-> chat'[t].ret.value]>>
             kept == Len(conversation_history')
             gone == Len(full) - kept
         IN /\ kept = Min(Len(full), WindowCap)
            /\ \A i \in 1..kept : conversation_history'[i] = full[gone + i]
            /\ conversation_history'[kept - 1].content = chat[t].user_message
            /\ conversation_history'[kept].content = chat'[t].ret.value
    ]_vars

\* a reply was appended to a window that started full: turns that were there
\* at the start survive behind evicted ones, and the newest pair is at the end
C2_Witness ==
  /\ chatsCompleted = 1
  /\ Len(conversation_history) = WindowCap
  /\ conversation_history[1].content \in 2..MaxStart
  /\ conversation_history[WindowCap - 1].content \in Messages
  /\ conversation_history[WindowCap].content \in Replies

\* ------------------------------------------------------------------------
\* Properties of the natural-language query pipeline (SpecNL)
\* ------------------------------------------------------------------------

\* number of logged calls of one operation
CountCalls(op) == Cardinality({i \in 1..Len(calls) : calls[i].op = op})

\* the invocation got past Execute: the backend answered or failed
NLExecuted == nl.outcome # NoValue

\* the backend returned rows that normalize into a frame
NLUsableRows ==
  /\ nl.outcome = "rows"
  /\ nl.result.resultType \in {"vector", "matrix"}
  /\ \A i \in 1..Len(nl.result.result) : IsNumeric(nl.result.result[i])

\* C3: once an expression has been generated, every backend outcome of
\* Execute ends in exactly one of Success, NoResults, QueryError: rows give
\* Success, zero rows give NoResults, a backend failure gives QueryError.
C3_ClassificationByOutcome ==
  (nl.pc = "done" /\ NLExecuted) =>
     /\ nl.ret.kind = "returned"
     /\ nl.ret.status \in {"success", "no_results", "query_error"}
     /\ NLUsableRows => nl.ret.status = "success"
     /\ nl.outcome = "empty" => nl.ret.status = "no_results"
     /\ nl.outcome \in GatewayErrors => nl.ret.status = "query_error"

\* C4: QueryError is returned only when executing the generated expression
\* against the backend failed (the backend call failed or its result could
\* not be normalized); a failure of the secondary analyze_metrics call leaves
\* natural_language_query as an exception.
C4_QueryErrorOnlyFromExecute ==
  nl.pc = "done" =>
     /\ nl.ret.status = "query_error" =>
          \/ nl.outcome \in GatewayErrors
          \/ (nl.outcome = "rows" /\ ~NLUsableRows)
     /\ (CountCalls("analyze_metrics") = 1 /\ nl.ret.status # "success") =>
          nl.ret.kind = "raised"

\* C5: a transport failure of the backend during Execute ends in an outcome
\* other than QueryError and NoResults.
C5_TransportFailureDistinct ==
  (nl.pc = "done" /\ nl.outcome = TransportError) =>
     nl.ret.status \notin {"query_error", "no_results"}

\* C6: every returned outcome of the pipeline carries the expression exactly
\* as generate_promql_query returned it and the question as it was asked.
C6_ExpressionPassedThrough ==
  nl.ret.kind = "returned" =>
     /\ nl.ret.status \in {"success", "no_results", "query_error"}
     /\ nl.ret.generated_promql = nl.promql_query
     /\ nl.ret.original_query = nl.query
     /\ nl.promql_query \in Exprs
     /\ nl.query \in Questions

\* the backend rejected an expression and the result names that expression
C6_Witness ==
  /\ nl.ret.status = "query_error"
  /\ nl.outcome = QueryFailed
  /\ nl.ret.generated_promql = ExprInvalid

\* C7: an invocation that reaches Execute issues exactly one backend query:
\* a range query over one hour at a one-minute step if the expression
\* contains "rate(" or "increase(", an instant query otherwise, and in both
\* cases with the generated expression unchanged.
C7_OneQueryPerExecute ==
  NLExecuted =>
     /\ CountCalls("query") + CountCalls("query_range") = 1
     /\ \A i \in 1..Len(calls) :
          calls[i].op \in {"query", "query_range"} =>
            /\ calls[i].arg = nl.promql_query
            /\ calls[i].op = "query_range" <=>
                 \/ Contains(nl.promql_query, <<"r", "a", "t", "e", "(">>)
                 \/ Contains(nl.promql_query,
                             <<"i", "n", "c", "r", "e", "a", "s", "e", "(">>)
            /\ calls[i].op = "query_range" =>
                 (calls[i].hours = 1 /\ calls[i].step = "1m")

\* increase(x) was executed as a range query
C7_Witness ==
  /\ NLExecuted
  /\ nl.promql_query = ExprIncrease
  /\ CountCalls("query_range") = 1

\* ------------------------------------------------------------------------
\* Properties of alert investigation (SpecInv)
\* ------------------------------------------------------------------------

\* the active-alert list was fetched and investigate_alert has ended
InvListFetched == inv.pc = "done" /\ inv.ret.error \notin GatewayErrors

\* some active alert carries the requested name
InvNamePresent ==
  \E i \in 1..Len(inv.active_alerts) :
     inv.active_alerts[i].alertname = inv.alert_name

\* C8: when the requested name is absent from the active-alert list the
\* investigation returns NotFound as a normal result, with no call of
\* explain_alert and no probe; when the alert is found explain_alert is
\* called exactly once.
C8_ExplainOnlyWhenFound ==
  InvListFetched =>
     /\ ~InvNamePresent =>
          /\ inv.ret.kind = "returned"
          /\ inv.ret.status = "not_found"
          /\ CountCalls("explain_alert") = 0
          /\ CountCalls("query") = 0
     /\ InvNamePresent =>
          /\ CountCalls("explain_alert") = 1
          /\ inv.ret.status # "not_found"

\* alerts are active, none of them has the requested name
C8_Witness ==
  /\ inv.pc = "done"
  /\ inv.ret.status = "not_found"
  /\ Len(inv.active_alerts) = MaxAlerts
  /\ inv.alert_name \in AlertNames

\* the probes of CorrelateMetrics, in the order they are issued
ProbeMetrics == <<"up", "cpu_usage_percent", "memory_usage_percent">>

\* CorrelateMetrics is over: the investigation is at Explain or beyond it
InvCorrelated ==
  /\ inv.target_alert # NoAlert
  /\ inv.pc \in {"explain", "done"}

\* C9: for an alert with an instance label exactly three instant probes
\* (availability, CPU, memory) are issued for that instance, the correlated
\* set is exactly the probes that returned at least one row, and whatever
\* the probes did the investigation goes on to Explain; for an alert without
\* an instance label no probe is issued and the set is empty.
C9_CorrelationBestEffort ==
  /\ (inv.pc = "done" /\ inv.target_alert # NoAlert) =>
        /\ CountCalls("explain_alert") = 1
        /\ inv.ret.error \notin GatewayErrors
  /\ (InvCorrelated /\ inv.target_alert.instance # NoValue) =>
        /\ CountCalls("query") = 3
        /\ Len(inv.outcomes) = 3
        /\ \A i \in 1..3 :
             /\ calls[i + 1].op = "query"
             /\ calls[i + 1].arg.metric = ProbeMetrics[i]
             /\ calls[i + 1].arg.instance = inv.target_alert.instance
        /\ {inv.related_metrics[i] : i \in 1..Len(inv.related_metrics)}
             = {ProbeMetrics[i] : i \in {j \in 1..3 : inv.outcomes[j] = "rows"}}
        /\ Len(inv.related_metrics)
             = Cardinality({j \in 1..3 : inv.outcomes[j] = "rows"})
  /\ (InvCorrelated /\ inv.target_alert.instance = NoValue) =>
        /\ CountCalls("query") = 0
        /\ inv.related_metrics = <<>>
  /\ inv.ret.status = "success" =>
        inv.ret.related_metrics = inv.related_metrics

\* an investigation succeeded although one probe failed and one was empty
C9_Witness ==
  /\ inv.ret.status = "success"
  /\ \E i \in 1..Len(inv.outcomes) : inv.outcomes[i] \in GatewayErrors
  /\ \E i \in 1..Len(inv.outcomes) : inv.outcomes[i] = "empty"
  /\ Len(inv.ret.related_metrics) = 1

\* ------------------------------------------------------------------------
\* Properties of health analysis (SpecHealth)
\* ------------------------------------------------------------------------

RECURSIVE WithRows(_, _)
\* the names whose outcome is "rows", in order
WithRows(names, outcomes) ==
  IF names = <<>> \/ outcomes = <<>> THEN <<>>
  ELSE IF Head(outcomes) = "rows"
       THEN <<Head(names)>> \o WithRows(Tail(names), Tail(outcomes))
       ELSE WithRows(Tail(names), Tail(outcomes))

\* the metric sweep is over
HealthSwept == health.pc \in {"collect_alerts", "synthesize", "done"}

C11_SweepErrorRaised ==
  (health.pc = "done"
     /\ \E i \in 1..Len(health.outcomes) : health.outcomes[i] \in HealthErrors)
  => /\ health.ret.kind = "raised"
     /\ \E i \in 1..Len(health.outcomes) : health.ret.error = health.outcomes[i]

\* C12: a failure of analyze_metrics in Synthesize is fatal: the exception
\* leaves analyze_system_health and no success payload is returned, whatever
\* metrics and alerts were collected.
C12_SynthesisFailureFatal ==
  health.analysis = "failed" =>
     /\ health.pc = "done"
     /\ health.ret.kind = "raised"
     /\ health.ret.status # "success"
     /\ health.ret.error = "OpenAIError"

\* the analysis failed after metrics and an alert had been collected
C12_Witness ==
  /\ health.analysis = "failed"
  /\ Len(health.collected_data) = Len(metrics_to_analyze)
  /\ health.active_alerts # <<>>

\* ------------------------------------------------------------------------
\* Properties of the chat pipeline's steps (SpecChat, SpecChatPaired)
\* ------------------------------------------------------------------------

\* C13: chat never aborts because of the metrics backend: a failure of the
\* "up" query or of the active-alerts fetch does not end the call, it leaves
\* the digest at the fixed "System status unavailable" and the call at its
\* Respond step; and when Respond then answers, the reply is returned and the
\* user turn and the reply are appended.
C13_ChatSurvivesBackendFailure ==
  [][\A t \in ChatTasks :
       /\ (chat[t].pc \in {"query_up", "get_alerts"}
             /\ chat'[t].backend = "failed")
          => /\ chat'[t].pc = "respond"
             /\ chat'[t].ret.kind = "none"
             /\ chat'[t].current_summary = SummaryUnavailable
       /\ (chat[t].pc = "respond" /\ chat[t].backend = "failed"
             /\ chat'[t].respond = "ok")
          => /\ chat[t].current_summary = SummaryUnavailable
             /\ chat'[t].ret.kind = "returned"
             /\ chat'[t].ret.value \in Replies
             /\ LET n == Len(conversation_history')
                IN /\ n >= 2
                   /\ conversation_history'[n - 1] =
                        UserTurn(chat[t].user_message)
                   /\ conversation_history'[n] =
                        AssistantTurn(chat'[t].ret.value)
    ]_vars

\* the latest prompt carried the unavailable digest, which only a failed
\* summary call produces, and the chat it belongs to returned a reply that is
\* now the newest turn of the window
C13_Witness ==
  \E t \in ChatTasks :
    /\ sent # <<>>
    /\ sent[1].content = SummaryUnavailable
    /\ chat[t].ret.kind = "returned"
    /\ Len(conversation_history) >= 2
    /\ conversation_history[Len(conversation_history) - 1] = sent[Len(sent)]
    /\ conversation_history[Len(conversation_history)] =
         AssistantTurn(chat[t].ret.value)

\* C14: the window is mutated only when message and reply are both known: a
\* Respond step that fails raises to the caller and leaves the window exactly
\* as it was, and the window changes in no step other than one in which a
\* chat returns its reply.
C14_WindowUntouchedOnRespondFailure ==
  [][/\ \A t \in ChatTasks :
          (chat[t].pc = "respond" /\ chat'[t].respond = "failed")
          => /\ conversation_history' = conversation_history
             /\ chat'[t].ret.kind = "raised"
     /\ conversation_history' # conversation_history
          => \E t \in ChatTasks : ChatReturns(t)
    ]_vars

\* a chat failed in Respond on a window that earlier chats had written to
C14_Witness ==
  /\ chatsCompleted >= 1
  /\ Len(conversation_history) >= 2
  /\ \E t \in ChatTasks :
       chat[t].respond = "failed" /\ chat[t].ret.kind = "raised"

\* C15: the prompt of a chat call is the system instruction, then the most
\* recent 10 turns of the window in their order (the whole window when it
\* holds fewer), then the current user message, whatever the window length.
C15_PromptHoldsLastTenTurns ==
  [][\A t \in ChatTasks :
       (chat[t].pc = "respond" /\ chat'[t].pc = "idle")
       => LET h == conversation_history
              n == Min(Len(h), PromptTurns)
          IN /\ Len(sent') = n + 2
             /\ sent'[1].role = "system"
             /\ \A i \in 1..n : sent'[i + 1] = h[Len(h) - n + i]
             /\ sent'[n + 2] = [role |-> "user",
                                content |-> chat[t].user_message]
    ]_vars

\* a prompt was built from a window of more than 10 turns: it carries 10 of
\* the turns the window started with
C15_Witness ==
  /\ Len(sent) = PromptTurns + 2
  /\ sent[2].content \in 2..MaxStart
  /\ sent[PromptTurns + 1].content \in 2..MaxStart

\* the window is a sequence of user/assistant pairs
PairShape(h) ==
  /\ Len(h) % 2 = 0
  /\ \A i \in 1..Len(h) :
       h[i].role = (IF i % 2 = 1 THEN "user" ELSE "assistant")

\* C16: with concurrent chat calls on one orchestrator the turns are never
\* interleaved: in every reachable state the window is a sequence of complete
\* user/assistant pairs, and the pair a returning chat appends is that chat's
\* own message immediately followed by the reply to it.
C16_TurnsNeverInterleaved ==
  /\ []PairShape(conversation_history)
  /\ [][\A t \in ChatTasks :
          ChatReturns(t) =>
            LET n == Len(conversation_history')
            IN /\ n >= 2
               /\ conversation_history'[n - 1] =
                    [role |-> "user", content |-> chat[t].user_message]
               /\ conversation_history'[n] =
                    [role |-> "assistant", content |-> chat'[t].ret.value]
      ]_vars

\* two callers completed a chat each on a full window: the last two pairs of
\* the window are theirs, one pair per caller
C16_Witness ==
  /\ chatsCompleted >= 2
  /\ Len(conversation_history) = WindowCap
  /\ conversation_history[WindowCap - 3].content \in Messages
  /\ conversation_history[WindowCap - 1].content \in Messages
  /\ \E t1, t2 \in ChatTasks :
       /\ t1 # t2
       /\ chat[t1].ret.kind = "returned"
       /\ chat[t2].ret.kind = "returned"
       /\ chat[t1].ret.value # chat[t2].ret.value
       /\ conversation_history[WindowCap - 2].content = chat[t1].ret.value
       /\ conversation_history[WindowCap].content = chat[t2].ret.value

\* ------------------------------------------------------------------------
\* Properties of the retry wrapper (SpecRetry)
\* ------------------------------------------------------------------------

\* C17: when the wrapped call fails on its first k-1 attempts and succeeds
\* on attempt k, the wrapper returns that attempt's value and makes no
\* further attempt: a success is always the last attempt made, every attempt
\* before it failed, and the wrapper has returned its value.
C17_SuccessReturnedNoFurtherAttempt ==
  \A k \in 1..Len(retry.attempts) :
    retry.attempts[k] \in CallValues
    => /\ k = Len(retry.attempts)
       /\ retry.started = k
       /\ k <= retry.max_retries + 1
       /\ \A j \in 1..(k - 1) : retry.attempts[j] \in CallErrors
       /\ retry.pc = "done"
       /\ retry.ret.kind = "returned"
       /\ retry.ret.value = retry.attempts[k]

\* the call succeeded after at least two failed attempts
C17_Witness ==
  /\ Len(retry.attempts) >= 3
  /\ retry.attempts[Len(retry.attempts)] \in CallValues
  /\ retry.ret.kind = "returned"

\* C18: when the wrapped call fails on every attempt, the wrapper raises the
\* error of the final attempt, not an earlier one and not an empty result,
\* and it does not raise before all max_retries + 1 attempts were made.
C18_FinalErrorRaisedAtCeiling ==
  (retry.pc = "done" /\ ~retry.cancelled
     /\ \A k \in 1..Len(retry.attempts) : retry.attempts[k] \in CallErrors)
  => /\ retry.ret.kind = "raised"
     /\ Len(retry.attempts) = retry.max_retries + 1
     /\ retry.started = retry.max_retries + 1
     /\ retry.ret.error = retry.attempts[Len(retry.attempts)]

\* every attempt failed and the final error differs from the first one
C18_Witness ==
  /\ retry.pc = "done"
  /\ ~retry.cancelled
  /\ retry.ret.kind = "raised"
  /\ Len(retry.attempts) >= 2
  /\ retry.attempts[1] # retry.attempts[Len(retry.attempts)]
  /\ retry.attempts[Len(retry.attempts)] \in CallErrors

\* C19, as stated: the number of attempts made for one call never exceeds
\* max_retries.
C19_AttemptsAtMostMaxRetries ==
  retry.started <= retry.max_retries

\* C19, amended: the number of attempts made for one call never exceeds
\* max_retries + 1, the initial attempt and at most max_retries retries.
C19_AttemptsAtMostMaxRetriesPlusOne ==
  /\ retry.started <= retry.max_retries + 1
  /\ Len(retry.attempts) <= retry.started

\* a call with a positive max_retries used all its attempts
C19_Witness ==
  /\ retry.max_retries >= 1
  /\ retry.started = retry.max_retries + 1
  /\ Len(retry.attempts) = retry.started

\* C20: when the caller is cancelled while an attempt or a backoff wait is
\* in flight, no further attempt is made and what reaches the caller is the
\* last failure observed from the wrapped call.
C20_CancelPropagatesLastFailure ==
  (retry.cancelled /\ retry.last_exception # NoValue)
  => /\ retry.pc = "done"
     /\ retry.started <= Len(retry.attempts) + 1
     /\ retry.ret.kind = "raised"
     /\ retry.ret.error = retry.last_exception

\* ------------------------------------------------------------------------
\* Properties of the TTL cache (SpecCache, SpecCacheRace)
\* ------------------------------------------------------------------------

\* C21: a value stored by set at time T, and not overwritten or cleared
\* since, is returned unchanged by a get at every time up to T + ttl - 1 and
\* is a miss for a get at every time from T + ttl + 1 on.
C21_HitBeforeTtlMissAfter ==
  \A th \in CacheThreads :
    LET c == timed.call[th]
    IN (c.pc = "idle" /\ c.op = "get" /\ timed.stored[c.key].present)
       => LET T == timed.stored[c.key].timestamp
          IN /\ c.at <= T + timed.ttl_seconds - 1
                  => /\ c.ret.kind = "hit"
                     /\ c.ret.value = timed.stored[c.key].value
             /\ c.at >= T + timed.ttl_seconds + 1
                  => c.ret.kind = "miss"

\* a get at time T + ttl + 1 missed a value that was set at a time T > 0 and
\* that nothing had read, overwritten or cleared before
C21_Witness ==
  LET c == timed.call[1]
  IN /\ c.pc = "idle"
     /\ c.op = "get"
     /\ timed.stored[c.key].present
     /\ timed.stored[c.key].timestamp > 0
     /\ c.at = timed.stored[c.key].timestamp + timed.ttl_seconds + 1
     /\ c.ret.kind = "miss"
     /\ ~timed.cache[c.key].present

\* C22: with threads sharing the cache, every get returns a stored value or
\* a miss, and none fails with an error.
C22_GetNeverFails ==
  \A th \in CacheThreads :
    timed.call[th].op = "get" => timed.call[th].ret.kind # "raised"

\* ------------------------------------------------------------------------
\* Properties of the metrics gateway (SpecGateway)
\* ------------------------------------------------------------------------

\* the call is a finished normalization of a result of the given type
Formatted(resultType) ==
  /\ gateway.op = "format"
  /\ gateway.pc = "done"
  /\ gateway.input.resultType = resultType

\* C23: for a vector result with N series, normalization yields a frame of
\* exactly N rows, one per series in input order, each with the timestamp of
\* the series, its value as a number, and its labels.
C23_VectorRowsCarryValueAndLabels ==
  (Formatted("vector") /\ gateway.ret.kind = "returned")
  => LET series == gateway.input.result
         rows   == gateway.ret.value
     IN /\ Len(rows) = Len(series)
        /\ \A i \in 1..Len(series) :
             /\ rows[i]["timestamp"] = DateTimeCell(series[i].value[1])
             /\ rows[i]["value"] = FloatCell(FloatOf(series[i].value[2]))
             /\ \A l \in DOMAIN series[i].metric :
                  rows[i][l] = StrCell(series[i].metric[l])

\* number of samples in the series before series i of a matrix result
RECURSIVE SamplesBefore(_, _)
SamplesBefore(series, i) ==
  IF i <= 1 THEN 0
  ELSE SamplesBefore(series, i - 1) + Len(series[i - 1].values)

\* C24: for a matrix result, normalization yields one row per sample of each
\* series (N x k rows for N series of k samples), the rows of a series being
\* consecutive, and within the rows of a series the timestamps are
\* non-decreasing when they are in the input.
C24_MatrixRowPerSample ==
  (Formatted("matrix") /\ gateway.ret.kind = "returned")
  => LET series == gateway.input.result
         rows   == gateway.ret.value
         N      == Len(series)
     IN /\ Len(rows) = SamplesBefore(series, N + 1)
        /\ \A k \in 0..MaxSamples :
             (\A i \in 1..N : Len(series[i].values) = k)
             => Len(rows) = N * k
        /\ \A i \in 1..N :
             LET off == SamplesBefore(series, i)
                 vs  == series[i].values
             IN /\ \A j \in 1..Len(vs) :
                     rows[off + j]["timestamp"] = DateTimeCell(vs[j][1])
                /\ (\A j \in 1..(Len(vs) - 1) : vs[j][1] <= vs[j + 1][1])
                   => \A j \in 1..(Len(vs) - 1) :
                        rows[off + j]["timestamp"].num
                          <= rows[off + j + 1]["timestamp"].num

\* a matrix of two series with two samples each, in time order, gave four
\* rows
C24_Witness ==
  /\ Formatted("matrix")
  /\ gateway.ret.kind = "returned"
  /\ Len(gateway.input.result) = 2
  /\ \A i \in 1..2 :
       /\ Len(gateway.input.result[i].values) = 2
       /\ gateway.input.result[i].values[1][1]
            < gateway.input.result[i].values[2][1]
  /\ Len(gateway.ret.value) = 4

\* C25: when the result type is neither vector nor matrix, normalization
\* fails with the unsupported-result-type error and returns no frame,
\* whatever the payload holds, the empty payload included.
C25_UnsupportedTypeFails ==
  (gateway.op = "format" /\ gateway.pc = "done"
     /\ gateway.input.resultType \notin {"vector", "matrix"})
  => /\ gateway.ret.kind = "raised"
     /\ gateway.ret.error = "Unsupported result type"
     /\ gateway.ret.value = NoValue

\* a scalar result with a payload was refused
C25_Witness ==
  /\ Formatted("scalar")
  /\ gateway.input.result # <<>>
  /\ gateway.ret.kind = "raised"

\* the value strings of a vector or matrix result, series after series
RECURSIVE ValueStrings(_, _)
ValueStrings(resultType, series) ==
  IF series = <<>> THEN <<>>
  ELSE (IF resultType = "matrix"
        THEN [j \in 1..Len(Head(series).values) |->
                Head(series).values[j][2]]
        ELSE <<Head(series).value[2]>>)
       \o ValueStrings(resultType, Tail(series))

\* C26: normalization never drops a sample silently: when the value string
\* of any sample is not a number, it fails with an error and returns no
\* frame, so a frame that is returned has one row for every input sample.
C26_MalformedSampleFails ==
  (gateway.op = "format" /\ gateway.pc = "done"
     /\ gateway.input.resultType \in {"vector", "matrix"})
  => LET strings == ValueStrings(gateway.input.resultType,
                                 gateway.input.result)
     IN /\ (\E j \in 1..Len(strings) : strings[j] \notin {"1", "0", "85"})
           => /\ gateway.ret.kind = "raised"
              /\ gateway.ret.error # NoValue
              /\ gateway.ret.value = NoValue
        /\ gateway.ret.kind = "returned"
           => Len(gateway.ret.value) = Len(strings)

\* a matrix series whose second sample does not parse made the call fail
C26_Witness ==
  /\ Formatted("matrix")
  /\ Len(gateway.input.result) >= 1
  /\ Len(gateway.input.result[1].values) = 2
  /\ gateway.input.result[1].values[1][2] = "1"
  /\ gateway.input.result[1].values[2][2] = "x"
  /\ gateway.ret.kind = "raised"

\* the rules of all groups, group after group
RECURSIVE AllRules(_)
AllRules(groups) ==
  IF groups = <<>> THEN <<>>
  ELSE Head(groups).rules \o AllRules(Tail(groups))

\* C27: for every mix of rule groups, get_alerting_rules returns exactly the
\* rules of the alerting kind, in group order then rule order, never a
\* recording rule, and recording rules in the response are not an error.
C27_OnlyAlertingRules ==
  (gateway.op = "get_alerting_rules" /\ gateway.answered)
  => LET all  == AllRules(gateway.response)
         keep == {i \in 1..Len(all) : all[i].type = "alerting"}
         out  == gateway.ret.value
     IN /\ gateway.ret.kind = "returned"
        /\ Len(out) = Cardinality(keep)
        /\ \A i \in 1..Len(out) : out[i].type # "recording"
        /\ \A i \in 1..Len(out) :
             \E j \in keep :
               /\ out[i] = all[j]
               /\ Cardinality({m \in keep : m < j}) = i - 1

\* two groups, with a recording rule ahead of an alerting rule in one of
\* them, gave the alerting rules of both
C27_Witness ==
  /\ gateway.op = "get_alerting_rules"
  /\ gateway.answered
  /\ Len(gateway.response) = 2
  /\ Len(gateway.response[1].rules) = 2
  /\ gateway.response[1].rules[1].type = "recording"
  /\ gateway.response[1].rules[2].type = "alerting"
  /\ Len(gateway.response[2].rules) >= 1
  /\ gateway.response[2].rules[1].type = "alerting"
  /\ Len(gateway.ret.value) >= 2

\* C28: query fails with an unsupported-result-type error whenever the
\* successful response carries a result that is neither a vector nor a
\* matrix, and never returns such a result to its caller.
C28_QueryRejectsOtherTypes ==
  (gateway.op = "query" /\ gateway.answered
     /\ gateway.response.resultType \notin {"vector", "matrix"})
  => gateway.ret.kind = "raised"

\* ------------------------------------------------------------------------
\* Properties of the orchestrator as a whole (SpecAgent, SpecAgentFair)
\* ------------------------------------------------------------------------

\* what a finished call of one of the four pipelines handed to its caller: a
\* payload with a status, or an exception that names its kind
Concluded(ret) ==
  \/ ret.kind = "returned"
  \/ ret.kind = "raised" /\ ret.error # NoValue

\* C29: every invocation of a pipeline ends, and ends with a result: a
\* structured success payload or a structured failure that carries the kind
\* of the error; no invocation leaves its caller with nothing and none stays
\* suspended for ever once the calls it awaits are answered.
C29_EveryInvocationEndsWithResult ==
  /\ [](/\ nl.pc = "done" =>
             /\ Concluded(nl.ret)
             /\ nl.ret.kind = "returned" =>
                  /\ nl.ret.status \in {"success", "no_results", "query_error"}
                  /\ nl.ret.status = "query_error" => nl.ret.error # NoValue
        /\ inv.pc = "done" =>
             /\ Concluded(inv.ret)
             /\ inv.ret.kind = "returned" =>
                  inv.ret.status \in {"success", "not_found"}
        /\ health.pc = "done" =>
             /\ Concluded(health.ret)
             /\ health.ret.kind = "returned" => health.ret.status = "success"
        /\ rec.pc = "done" =>
             /\ Concluded(rec.ret)
             /\ rec.ret.kind = "returned" => rec.ret.value \in Replies)
  /\ [][\A t \in ChatTasks :
         (chat[t].pc # "idle" /\ chat'[t].pc = "idle") =>
           \/ chat'[t].ret.kind = "returned" /\ chat'[t].ret.value \in Replies
           \/ chat'[t].ret.kind = "raised"]_vars
  /\ (nl.pc \notin {"idle", "done"}) ~> (nl.pc = "done")
  /\ (inv.pc \notin {"idle", "done"}) ~> (inv.pc = "done")
  /\ (health.pc \notin {"idle", "done"}) ~> (health.pc = "done")
  /\ (rec.pc \notin {"idle", "done"}) ~> (rec.pc = "done")
  /\ \A t \in ChatTasks : (chat[t].pc # "idle") ~> (chat[t].pc = "idle")

\* a natural-language query ended with the failure of the model re-raised,
\* after a chat call had returned its reply
C29_Witness ==
  /\ nl.pc = "done"
  /\ nl.ret.kind = "raised"
  /\ nl.ret.error = "OpenAIError"
  /\ chatsCompleted = 1
  /\ \E t \in ChatTasks : chat[t].ret.kind = "returned"

\* C30: the conversation window is written by chat only: no step of
\* natural_language_query, investigate_alert, analyze_system_health or
\* get_monitoring_recommendations changes it, whether the call succeeds or
\* fails, and every change of the window is the return of a chat call.
C30_OnlyChatWritesWindow ==
  [][/\ (nl' # nl \/ inv' # inv \/ health' # health \/ rec' # rec)
          => conversation_history' = conversation_history
     /\ conversation_history' # conversation_history
          => \E t \in ChatTasks : ChatReturns(t)]_vars

\* a health sweep failed at its synthesis and left the two turns of a
\* finished chat call in the window
C30_Witness ==
  /\ health.pc = "done"
  /\ health.ret.kind = "raised"
  /\ chatsCompleted = 1
  /\ Len(conversation_history) = 2
  /\ conversation_history[2].role = "assistant"

\* ------------------------------------------------------------------------
\* Order and number of the calls of the natural-language query (SpecNL)
\* ------------------------------------------------------------------------

C32_FetchThenGenerateThenExecute ==
  /\ CountCalls("get_metrics_metadata") <= 1
  /\ CountCalls("generate_promql_query") <= 1
  /\ \A i \in 1..Len(calls) :
       /\ calls[i].op = "get_metrics_metadata" => i = 1
       /\ calls[i].op = "generate_promql_query" =>
            (i = 2 /\ calls[1].op = "get_metrics_metadata")
       /\ calls[i].op \in {"query", "query_range"} =>
            (i = 3 /\ calls[2].op = "generate_promql_query")
       /\ calls[i].op = "analyze_metrics" =>
            (i = 4 /\ calls[3].op \in {"query", "query_range"})
  /\ nl.pc \in {"generate", "execute", "analyze"} =>
       CountCalls("get_metrics_metadata") = 1
  /\ nl.pc \in {"execute", "analyze"} =>
       CountCalls("generate_promql_query") = 1
  /\ (nl.pc = "done" /\ ~NLExecuted) =>
       /\ nl.ret.kind = "raised"
       /\ nl.ret.status = NoValue
       /\ nl.ret.error \in GatewayErrors \cup {"OpenAIError"}
       /\ CountCalls("query") + CountCalls("query_range") = 0
       /\ CountCalls("analyze_metrics") = 0

\* the generation failed after the catalog was fetched: two calls, then the
\* exception
C32_Witness ==
  /\ nl.pc = "done"
  /\ Len(calls) = 2
  /\ calls[2].op = "generate_promql_query"
  /\ nl.ret.kind = "raised"
  /\ nl.ret.error = "OpenAIError"

\* ------------------------------------------------------------------------
\* Lookup of the alert to investigate (SpecInv)
\* ------------------------------------------------------------------------

\* the list of active alerts has been fetched
InvListKnown ==
  \/ inv.pc \in {"probe", "explain"}
  \/ InvListFetched

\* C33: the lookup finds the alert if and only if some alert of the active
\* list has an alertname label equal to the requested name, character for
\* character; when several alerts have it, the first in the order of the
\* list is the one that is investigated and returned.
C33_LookupExactFirstMatch ==
  InvListKnown =>
     /\ (inv.target_alert # NoAlert) <=>
          \E i \in 1..Len(inv.active_alerts) :
             inv.active_alerts[i].alertname = inv.alert_name
     /\ (inv.pc = "done" /\ inv.target_alert = NoAlert) =>
          inv.ret.status = "not_found"
     /\ inv.target_alert # NoAlert =>
          /\ inv.ret.status # "not_found"
          /\ \E k \in 1..Len(inv.active_alerts) :
               /\ inv.active_alerts[k].alertname = inv.alert_name
               /\ \A j \in 1..(k - 1) :
                    inv.active_alerts[j].alertname # inv.alert_name
               /\ inv.target_alert = inv.active_alerts[k]
          /\ inv.ret.kind = "returned" => inv.ret.alert = inv.target_alert

\* the requested name was found behind an alert whose name differs from it
\* in a special character only, and the second alert was returned
C33_Witness ==
  /\ inv.ret.status = "success"
  /\ Len(inv.active_alerts) = 2
  /\ Stripped(inv.active_alerts[1].alertname) = Stripped(inv.alert_name)
  /\ inv.active_alerts[1].alertname # inv.alert_name
  /\ inv.active_alerts[2].alertname = inv.alert_name
  /\ inv.ret.alert = inv.active_alerts[2]

\* ------------------------------------------------------------------------
\* Order of the calls of health analysis (SpecHealth)
\* ------------------------------------------------------------------------

\* C34: health analysis issues one range query per watch-list metric, in
\* the order of the watch-list and each only after the one before it was
\* answered, all of them before the single fetch of the active alerts, which
\* comes before the single call of analyze_metrics; then it is done.
C34_SweepThenAlertsThenSynthesize ==
  /\ Len(calls) <= Len(metrics_to_analyze) + 2
  /\ \A i \in 1..Len(calls) :
       /\ i <= Len(metrics_to_analyze) =>
            /\ calls[i].op = "query_range"
            /\ calls[i].arg = metrics_to_analyze[i]
            /\ calls[i].hours = health.time_range_hours
       /\ i = Len(metrics_to_analyze) + 1 => calls[i].op = "get_active_alerts"
       /\ i = Len(metrics_to_analyze) + 2 => calls[i].op = "analyze_metrics"
  /\ Len(health.outcomes) = CountCalls("query_range")
  /\ health.pc = "collect_metrics" =>
       /\ Len(calls) = health.metric - 1
       /\ health.metric <= Len(metrics_to_analyze)
  /\ health.pc = "collect_alerts" => Len(calls) = Len(metrics_to_analyze)
  /\ health.pc = "synthesize" => Len(calls) = Len(metrics_to_analyze) + 1
  /\ health.pc = "done" => Len(calls) >= Len(metrics_to_analyze) + 1
  /\ health.analysis # NoValue =>
       (health.pc = "done" /\ Len(calls) = Len(metrics_to_analyze) + 2)

\* a sweep went through the whole watch-list, fetched the alerts and ended
\* with the analysis
C34_Witness ==
  /\ health.pc = "done"
  /\ health.analysis = "ok"
  /\ Len(calls) = Len(metrics_to_analyze) + 2
  /\ calls[Len(metrics_to_analyze)].arg = "go_memstats_alloc_bytes"
  /\ calls[Len(metrics_to_analyze) + 1].op = "get_active_alerts"

\* ------------------------------------------------------------------------
\* Waits of the retry wrapper (SpecRetry)
\* ------------------------------------------------------------------------

RECURSIVE Power(_, _)
\* b to the power n
Power(b, n) == IF n = 0 THEN 1 ELSE b * Power(b, n - 1)

\* C35: the wrapper sleeps between attempts and only there: the wait before
\* the j-th retry is delay * backoff^(j-1), one wait lies between two
\* consecutive attempts, every wait follows a failed attempt, and no wait
\* follows a successful attempt or the last failed attempt.
C35_WaitsBetweenAttemptsOnly ==
  /\ \A j \in 1..Len(retry.waits) :
       /\ retry.waits[j] = retry.delay * Power(retry.backoff, j - 1)
       /\ retry.attempts[j] \in CallErrors
  /\ Len(retry.waits) <= retry.max_retries
  /\ retry.pc = "call" =>
       /\ Len(retry.waits) = retry.started - 1
       /\ Len(retry.attempts) = retry.started - 1
  /\ retry.pc = "sleep" =>
       /\ Len(retry.waits) = retry.started
       /\ Len(retry.attempts) = retry.started
       /\ retry.started <= retry.max_retries
  /\ (retry.pc = "done" /\ ~retry.cancelled) =>
       /\ Len(retry.waits) = Len(retry.attempts) - 1
       /\ Len(retry.attempts) = retry.started

\* a call succeeded at its second retry, after a wait of delay and a wait of
\* twice the delay
C35_Witness ==
  /\ retry.pc = "done"
  /\ retry.ret.kind = "returned"
  /\ retry.backoff = 2
  /\ Len(retry.attempts) = 3
  /\ retry.waits = <<retry.delay, 2 * retry.delay>>

\* ------------------------------------------------------------------------
\* Eviction from the TTL cache (SpecCache)
\* ------------------------------------------------------------------------

\* C36: a get evicts an entry only when the entry is older than the
\* time-to-live: a get of a stored value whose age is at most ttl_seconds,
\* exactly ttl_seconds included, is a hit and leaves the entry in the store.
C36_EvictOnlyWhenOlderThanTtl ==
  \A th \in CacheThreads :
    LET c == timed.call[th]
    IN (c.pc = "idle" /\ c.op = "get" /\ timed.stored[c.key].present
          /\ c.at - timed.stored[c.key].timestamp <= timed.ttl_seconds)
       => /\ c.ret.kind = "hit"
          /\ timed.cache[c.key].present

\* thread th ends a get of key k by deleting the entry
GetDeletes(th, k) ==
  /\ timed.call[th].pc = "delete"
  /\ timed.call[th].key = k
  /\ timed'.call[th].pc = "idle"

\* some thread has just set key k
SetStores(k) ==
  \E th \in CacheThreads :
    /\ timed.call[th].pc = "idle"
    /\ timed'.call[th].op = "set"
    /\ timed'.call[th].key = k
    /\ timed'.cache[k].timestamp = timed.now

\* some thread has just cleared the cache
ClearEmpties ==
  \E th \in CacheThreads :
    /\ timed.call[th].pc = "idle"
    /\ timed'.call[th].op = "clear"
    /\ \A k \in CacheKeys : ~timed'.cache[k].present

\* C37: eviction is lazy and local: an entry leaves the store only by a get
\* of its own key after its expiry, by a set of its key, which replaces it,
\* or by clear; an entry appears or changes only by a set of its key; so a
\* get or a set of one key leaves the entries of every other key as they
\* are, and an expired entry that is not read stays while the time passes.
C37_EvictionLazyAndLocal ==
  [][\A k \in CacheKeys :
       /\ (timed.cache[k].present /\ ~timed'.cache[k].present) =>
            \/ ClearEmpties
            \/ \E th \in CacheThreads :
                 /\ GetDeletes(th, k)
                 /\ timed.now - timed.cache[k].timestamp
                      >= timed.ttl_seconds
       /\ (timed'.cache[k].present
             /\ timed'.cache[k] # timed.cache[k]) => SetStores(k)
       /\ timed'.now # timed.now => timed'.cache = timed.cache]_vars

\* an entry that expired and was not read is still in the store after a get
\* of the other key
C37_Witness ==
  \E k \in CacheKeys :
    /\ timed.cache[k].present
    /\ timed.now - timed.cache[k].timestamp > timed.ttl_seconds
    /\ timed.call[1].pc = "idle"
    /\ timed.call[1].op = "get"
    /\ timed.call[1].key # k
    /\ timed.call[1].at > timed.cache[k].timestamp + timed.ttl_seconds

\* ------------------------------------------------------------------------
\* The window a chat reply is generated from (SpecChat)
\* ------------------------------------------------------------------------

\* C38: no reply is generated from a stale window: when a chat call returns,
\* the turns of its prompt are the turns that stand right before its own
\* user/assistant pair in the window it leaves behind, the newest first
\* backwards, as many as the prompt holds and the window has kept; the
\* prompt holds the last 10 turns of the window as it was at the append, or
\* all of them when there are fewer.
C38_ReplyFromCurrentWindow ==
  [][\A t \in ChatTasks :
       ChatReturns(t) =>
         LET n == Len(conversation_history')
             m == Len(sent')
         IN /\ m - 2 = Min(Len(conversation_history), PromptTurns)
            /\ \A j \in 1..Min(m - 2, n - 2) :
                 sent'[m - j] = conversation_history'[n - 1 - j]
            /\ \A j \in 1..(m - 2) :
                 sent'[m - j] =
                   conversation_history[Len(conversation_history) + 1 - j]
    ]_vars

\* two callers were in chat together; the prompt of the one that returned
\* last ends with the pair of the one that returned first
C38_Witness ==
  /\ chatsCompleted = 2
  /\ Len(conversation_history) >= 4
  /\ Len(sent) >= 4
  /\ sent[Len(sent) - 1].content \in Replies
  /\ sent[Len(sent) - 2].content \in Messages
  /\ sent[Len(sent) - 1]
       = conversation_history[Len(conversation_history) - 2]
  /\ sent[Len(sent) - 2]
       = conversation_history[Len(conversation_history) - 3]
  /\ \A t \in {1, 2} : chat[t].ret.kind = "returned"

\* ------------------------------------------------------------------------
\* Failure of the alert fetch of health analysis (SpecHealth)
\* ------------------------------------------------------------------------

\* analyze_system_health ended right after the fetch of the active alerts
HealthAlertsFailed ==
  /\ health.pc = "done"
  /\ calls # <<>>
  /\ calls[Len(calls)].op = "get_active_alerts"

\* C39: the fetch of the active alerts is not covered by the partial-success
\* policy: when it fails, the failure leaves analyze_system_health as an
\* exception, analyze_metrics is not called and no success payload is
\* returned, even when every metric of the sweep was collected.
C39_AlertFetchFailureFatal ==
  /\ HealthAlertsFailed =>
       /\ health.ret.kind = "raised"
       /\ health.ret.error \in HealthErrors
       /\ health.ret.status # "success"
       /\ health.analysis = NoValue
       /\ CountCalls("analyze_metrics") = 0
  /\ health.ret.kind = "returned" =>
       /\ CountCalls("analyze_metrics") = 1
       /\ calls[Len(calls) - 1].op = "get_active_alerts"

\* every metric of the watch-list was collected, then the alert fetch failed
C39_Witness ==
  /\ HealthAlertsFailed
  /\ Len(health.collected_data) = Len(metrics_to_analyze)
  /\ \A i \in 1..Len(health.outcomes) : health.outcomes[i] = "rows"
  /\ health.ret.kind = "raised"

====
